---------------------------- MODULE Spec2Model ----------------------------
(***************************************************************************)
(* A model of agent-commander (Rust): the NDJSON codec, the incremental    *)
(* JsonOutputStream, the process executor and the Agent controller.        *)
(*                                                                         *)
(* Text is a sequence of one-character strings.  Option<T> is a sequence   *)
(* of length at most one: None is <<>>, Some(x) is <<x>>.                  *)
(***************************************************************************)
EXTENDS Integers, Sequences, FiniteSets, TLC

(***************************************************************************)
(* Characters.  The modelled alphabet is                                   *)
(*   { } [ ] , : " \ 1 a n u l space newline                               *)
(* JSON texts over other characters (the literals true/false, signs,       *)
(* fractions, exponents, \u escapes) are outside the modelled fragment;    *)
(* no text drawn into the model contains a backslash followed by u.        *)
(***************************************************************************)
NL == "\n"
SP == " "
QUOTE == "\""
BSLASH == "\\"

None == << >>
Some(x) == << x >>

\* char::is_whitespace restricted to the alphabet (used by str::trim), which
\* coincides there with the JSON whitespace serde_json skips.
IsWs(c) == c \in {SP, NL}

IsDigit(c) == c = "1"

DigitVal(c) == IF c = "1" THEN 1 ELSE 0

\* The Unicode code point of a character of the alphabet (String ordering).
CodePoint(c) ==
  CASE c = NL -> 10
    [] c = SP -> 32
    [] c = QUOTE -> 34
    [] c = "," -> 44
    [] c = "1" -> 49
    [] c = ":" -> 58
    [] c = "[" -> 91
    [] c = BSLASH -> 92
    [] c = "]" -> 93
    [] c = "a" -> 97
    [] c = "l" -> 108
    [] c = "n" -> 110
    [] c = "u" -> 117
    [] c = "{" -> 123
    [] c = "}" -> 125

SetMin(S) == CHOOSE x \in S : \A y \in S : x <= y
SetMax(S) == CHOOSE x \in S : \A y \in S : y <= x

\* str::trim: the text without its leading and trailing whitespace.
Trim(s) ==
  LET keep == {i \in 1..Len(s) : ~IsWs(s[i])}
  IN  IF keep = {} THEN << >> ELSE SubSeq(s, SetMin(keep), SetMax(keep))

\* Ord on String (byte-wise lexicographic), as the BTreeMap of an object uses it.
RECURSIVE StrLess(_, _)
StrLess(a, b) ==
  IF b = << >> THEN FALSE
  ELSE IF a = << >> THEN TRUE
  ELSE IF a[1] # b[1] THEN CodePoint(a[1]) < CodePoint(b[1])
  ELSE StrLess(Tail(a), Tail(b))

(***************************************************************************)
(* serde_json::Value.  An object is its map, kept as the sequence of       *)
(* <<key, value>> entries in ascending key order, one entry per key.       *)
(***************************************************************************)
JNull == [t |-> "null", v |-> << >>]
JNum(n) == [t |-> "num", v |-> n]
JStr(s) == [t |-> "str", v |-> s]
JArr(xs) == [t |-> "arr", v |-> xs]
JObj(m) == [t |-> "obj", v |-> m]

\* Map::insert: replaces the value of an existing key, keeps the key order.
RECURSIVE MapInsert(_, _, _)
MapInsert(m, k, x) ==
  IF m = << >> THEN << <<k, x>> >>
  ELSE IF m[1][1] = k THEN << <<k, x>> >> \o Tail(m)
  ELSE IF StrLess(k, m[1][1]) THEN << <<k, x>> >> \o m
  ELSE << m[1] >> \o MapInsert(Tail(m), k, x)

(***************************************************************************)
(* serde_json::from_str, restricted to the alphabet: a recursive-descent   *)
(* parser.  A parse step returns [ok, val, pos]: pos is the index of the   *)
(* first character after the parsed item.                                  *)
(***************************************************************************)
Fail == [ok |-> FALSE, val |-> JNull, pos |-> 0]
Parsed(x, p) == [ok |-> TRUE, val |-> x, pos |-> p]

\* Deserializer::parse_whitespace: the first index >= i holding no whitespace.
SkipWs(s, i) ==
  LET rest == {j \in i..Len(s) : ~IsWs(s[j])}
  IN  IF rest = {} THEN Len(s) + 1 ELSE SetMin(rest)

\* The characters of a string literal after its opening quote at i - 1.
RECURSIVE ScanString(_, _, _)
ScanString(s, i, acc) ==
  IF i > Len(s) THEN Fail
  ELSE IF s[i] = QUOTE THEN Parsed(acc, i + 1)
  ELSE IF s[i] = NL THEN Fail
  ELSE IF s[i] = BSLASH THEN
    IF i + 1 > Len(s) THEN Fail
    ELSE IF s[i + 1] \in {QUOTE, BSLASH} THEN ScanString(s, i + 2, Append(acc, s[i + 1]))
    ELSE IF s[i + 1] = "n" THEN ScanString(s, i + 2, Append(acc, NL))
    ELSE Fail
  ELSE ScanString(s, i + 1, Append(acc, s[i]))

\* The value of a run of digits starting at i.
RECURSIVE ScanNumber(_, _, _)
ScanNumber(s, i, acc) ==
  IF i <= Len(s) /\ IsDigit(s[i])
  THEN ScanNumber(s, i + 1, 10 * acc + DigitVal(s[i]))
  ELSE Parsed(JNum(acc), i)

IsLiteralAt(s, i, lit) ==
  /\ i + Len(lit) - 1 <= Len(s)
  /\ SubSeq(s, i, i + Len(lit) - 1) = lit

RECURSIVE ParseValue(_, _), ParseElements(_, _, _), ParseMembers(_, _, _)

\* The elements of an array after "[" or ",": value, then "," or "]".
ParseElements(s, i, acc) ==
  LET r == ParseValue(s, SkipWs(s, i))
  IN  IF ~r.ok THEN Fail
      ELSE LET j == SkipWs(s, r.pos)
           IN  IF j > Len(s) THEN Fail
               ELSE IF s[j] = "]" THEN Parsed(JArr(Append(acc, r.val)), j + 1)
               ELSE IF s[j] = "," THEN ParseElements(s, j + 1, Append(acc, r.val))
               ELSE Fail

\* The members of an object after "{" or ",": "key" : value, then "," or "}".
ParseMembers(s, i, acc) ==
  LET k == SkipWs(s, i)
  IN  IF k > Len(s) \/ s[k] # QUOTE THEN Fail
      ELSE LET key == ScanString(s, k + 1, << >>)
           IN  IF ~key.ok THEN Fail
               ELSE LET c == SkipWs(s, key.pos)
                    IN  IF c > Len(s) \/ s[c] # ":" THEN Fail
                        ELSE LET r == ParseValue(s, SkipWs(s, c + 1))
                             IN  IF ~r.ok THEN Fail
                                 ELSE LET j == SkipWs(s, r.pos)
                                          m == MapInsert(acc, key.val, r.val)
                                      IN  IF j > Len(s) THEN Fail
                                          ELSE IF s[j] = "}" THEN Parsed(JObj(m), j + 1)
                                          ELSE IF s[j] = "," THEN ParseMembers(s, j + 1, m)
                                          ELSE Fail

\* Deserializer::parse_value at index i (whitespace already skipped).
ParseValue(s, i) ==
  IF i > Len(s) THEN Fail
  ELSE IF s[i] = "n" THEN
    IF IsLiteralAt(s, i, <<"n", "u", "l", "l">>) THEN Parsed(JNull, i + 4) ELSE Fail
  ELSE IF IsDigit(s[i]) THEN ScanNumber(s, i, 0)
  ELSE IF s[i] = QUOTE THEN
    LET r == ScanString(s, i + 1, << >>)
    IN  IF r.ok THEN Parsed(JStr(r.val), r.pos) ELSE Fail
  ELSE IF s[i] = "[" THEN
    LET j == SkipWs(s, i + 1)
    IN  IF j <= Len(s) /\ s[j] = "]" THEN Parsed(JArr(<< >>), j + 1)
        ELSE ParseElements(s, i + 1, << >>)
  ELSE IF s[i] = "{" THEN
    LET j == SkipWs(s, i + 1)
    IN  IF j <= Len(s) /\ s[j] = "}" THEN Parsed(JObj(<< >>), j + 1)
        ELSE ParseMembers(s, i + 1, << >>)
  ELSE Fail

\* serde_json::from_str(..).ok(): one value, then only whitespace to the end.
from_str(s) ==
  LET r == ParseValue(s, SkipWs(s, 1))
  IN  IF r.ok /\ SkipWs(s, r.pos) = Len(s) + 1 THEN Some(r.val) ELSE None

(***************************************************************************)
(* serde_json::to_string and to_string_pretty.                             *)
(***************************************************************************)
\* The character of a decimal digit; the alphabet holds the digit 1 only.
DigitChar(d) == CASE d = 1 -> "1"

RECURSIVE NumText(_)
NumText(n) ==
  IF n < 10 THEN << DigitChar(n) >>
  ELSE Append(NumText(n \div 10), DigitChar(n % 10))

\* format_escaped_str_contents: quote, backslash and newline are escaped.
RECURSIVE EscapeText(_)
EscapeText(s) ==
  IF s = << >> THEN << >>
  ELSE (IF s[1] = QUOTE THEN << BSLASH, QUOTE >>
        ELSE IF s[1] = BSLASH THEN << BSLASH, BSLASH >>
        ELSE IF s[1] = NL THEN << BSLASH, "n" >>
        ELSE << s[1] >>) \o EscapeText(Tail(s))

StrText(s) == << QUOTE >> \o EscapeText(s) \o << QUOTE >>

RECURSIVE to_string(_), JoinElements(_), JoinMembers(_)

JoinElements(xs) ==
  IF xs = << >> THEN << >>
  ELSE IF Len(xs) = 1 THEN to_string(xs[1])
  ELSE to_string(xs[1]) \o << "," >> \o JoinElements(Tail(xs))

JoinMembers(m) ==
  IF m = << >> THEN << >>
  ELSE LET e == StrText(m[1][1]) \o << ":" >> \o to_string(m[1][2])
       IN  IF Len(m) = 1 THEN e ELSE e \o << "," >> \o JoinMembers(Tail(m))

\* serde_json::to_string: CompactFormatter.
to_string(x) ==
  CASE x.t = "null" -> << "n", "u", "l", "l" >>
    [] x.t = "num" -> NumText(x.v)
    [] x.t = "str" -> StrText(x.v)
    [] x.t = "arr" -> << "[" >> \o JoinElements(x.v) \o << "]" >>
    [] x.t = "obj" -> << "{" >> \o JoinMembers(x.v) \o << "}" >>

\* PrettyFormatter's indentation: two spaces per level.
RECURSIVE Indent(_)
Indent(d) == IF d = 0 THEN << >> ELSE << SP, SP >> \o Indent(d - 1)

RECURSIVE to_string_pretty(_, _), PrettyElements(_, _), PrettyMembers(_, _)

PrettyElements(xs, d) ==
  IF xs = << >> THEN << >>
  ELSE LET e == << NL >> \o Indent(d) \o to_string_pretty(xs[1], d)
       IN  IF Len(xs) = 1 THEN e ELSE e \o << "," >> \o PrettyElements(Tail(xs), d)

PrettyMembers(m, d) ==
  IF m = << >> THEN << >>
  ELSE LET e == << NL >> \o Indent(d) \o StrText(m[1][1]) \o << ":", SP >>
                \o to_string_pretty(m[1][2], d)
       IN  IF Len(m) = 1 THEN e ELSE e \o << "," >> \o PrettyMembers(Tail(m), d)

\* serde_json::to_string_pretty: x printed at nesting level d.
to_string_pretty(x, d) ==
  CASE x.t = "null" -> << "n", "u", "l", "l" >>
    [] x.t = "num" -> NumText(x.v)
    [] x.t = "str" -> StrText(x.v)
    [] x.t = "arr" ->
         IF x.v = << >> THEN << "[", "]" >>
         ELSE << "[" >> \o PrettyElements(x.v, d + 1) \o << NL >> \o Indent(d) \o << "]" >>
    [] x.t = "obj" ->
         IF x.v = << >> THEN << "{", "}" >>
         ELSE << "{" >> \o PrettyMembers(x.v, d + 1) \o << NL >> \o Indent(d) \o << "}" >>

(***************************************************************************)
(* streaming/ndjson.rs                                                     *)
(***************************************************************************)
\* Mutant of parse_ndjson_line: only a line starting with "{" is a candidate.
ParseLineObjectsOnly(line) ==
  LET trimmed == Trim(line)
  IN  IF trimmed = << >> THEN None
      ELSE IF trimmed[1] # "{" THEN None
      ELSE from_str(trimmed)

\* parse_ndjson_line: Some(value) or None.
parse_ndjson_line(line) ==
  LET trimmed == Trim(line)
  IN  IF trimmed = << >> THEN None
      ELSE IF trimmed[1] # "{" /\ trimmed[1] # "[" THEN None
      ELSE from_str(trimmed)

\* stringify_ndjson_line: the empty text for null, else the JSON and a newline.
stringify_ndjson_line(value, compact) ==
  IF value.t = "null" THEN << >>
  ELSE (IF compact THEN to_string(value) ELSE to_string_pretty(value, 0)) \o << NL >>

(***************************************************************************)
(* streaming/output_stream.rs: JsonOutputStream                            *)
(*   [buffer, messages, errors, line_count, on_message, on_error,          *)
(*    on_raw_line]                                                         *)
(* An observer field says whether a callback is registered.  An operation  *)
(* returns [st, ret, calls]: the stream afterwards, the returned           *)
(* Vec<Value> and the callback invocations it made, in order.              *)
(***************************************************************************)
\* JsonOutputStream::new
NewStream ==
  [buffer |-> << >>, messages |-> << >>, errors |-> << >>, line_count |-> 0,
   on_message |-> FALSE, on_error |-> FALSE, on_raw_line |-> FALSE]

\* set_on_message, set_on_error, set_on_raw_line
set_on_message(st) == [st EXCEPT !.on_message = TRUE]
set_on_error(st) == [st EXCEPT !.on_error = TRUE]
set_on_raw_line(st) == [st EXCEPT !.on_raw_line = TRUE]

ParseError(line, n) == [line |-> line, line_number |-> n]

\* The invocations of the three callbacks.
RawLineCall(line, n) == [callback |-> "on_raw_line", arg |-> line, n |-> n]
MessageCall(value, n) == [callback |-> "on_message", arg |-> value, n |-> n]
ErrorCall(error) == [callback |-> "on_error", arg |-> error.line, n |-> error.line_number]

\* str::split('\n'): the segments between newlines, at least one.
RECURSIVE SplitLines(_, _)
SplitLines(s, cur) ==
  IF s = << >> THEN << cur >>
  ELSE IF s[1] = NL THEN << cur >> \o SplitLines(Tail(s), << >>)
  ELSE SplitLines(Tail(s), Append(cur, s[1]))

\* Mutant of LineStep: a malformed line starting with "[" is recorded as a
\* ParseError too.
LineStepBracketError(r, line) ==
  LET n == r.st.line_count + 1
      parsed == parse_ndjson_line(line)
      trimmed == Trim(line)
  IN  IF parsed # None
      THEN [st |-> [r.st EXCEPT !.line_count = n,
                                !.messages = Append(@, parsed[1])],
            ret |-> Append(r.ret, parsed[1]), calls |-> r.calls]
      ELSE IF trimmed # << >> /\ trimmed[1] \in {"{", "["}
      THEN [st |-> [r.st EXCEPT !.line_count = n,
                                !.errors = Append(@, ParseError(line, n))],
            ret |-> r.ret, calls |-> r.calls]
      ELSE [st |-> [r.st EXCEPT !.line_count = n], ret |-> r.ret, calls |-> r.calls]

\* Mutant of LineStep: with on_message registered the message goes to the
\* callback only and is not collected.
LineStepObserverTakesMessage(r, line) ==
  LET n == r.st.line_count + 1
      parsed == parse_ndjson_line(line)
      trimmed == Trim(line)
  IN  IF parsed # None
      THEN IF r.st.on_message
           THEN [st |-> [r.st EXCEPT !.line_count = n], ret |-> r.ret,
                 calls |-> Append(r.calls, MessageCall(parsed[1], n))]
           ELSE [st |-> [r.st EXCEPT !.line_count = n,
                                     !.messages = Append(@, parsed[1])],
                 ret |-> Append(r.ret, parsed[1]), calls |-> r.calls]
      ELSE IF trimmed # << >> /\ trimmed[1] = "{"
      THEN [st |-> [r.st EXCEPT !.line_count = n,
                                !.errors = Append(@, ParseError(line, n))],
            ret |-> r.ret, calls |-> r.calls]
      ELSE [st |-> [r.st EXCEPT !.line_count = n], ret |-> r.ret, calls |-> r.calls]

\* Mutant of LineStep: the call returns every message collected so far, not
\* only the new ones.
LineStepReturnsCollected(r, line) ==
  LET n == r.st.line_count + 1
      parsed == parse_ndjson_line(line)
      trimmed == Trim(line)
  IN  IF parsed # None
      THEN [st |-> [r.st EXCEPT !.line_count = n,
                                !.messages = Append(@, parsed[1])],
            ret |-> Append(r.st.messages, parsed[1]), calls |-> r.calls]
      ELSE IF trimmed # << >> /\ trimmed[1] = "{"
      THEN [st |-> [r.st EXCEPT !.line_count = n,
                                !.errors = Append(@, ParseError(line, n))],
            ret |-> r.ret, calls |-> r.calls]
      ELSE [st |-> [r.st EXCEPT !.line_count = n], ret |-> r.ret, calls |-> r.calls]

\* Mutant of LineStep: a ParseError is numbered from zero.
LineStepZeroBased(r, line) ==
  LET n == r.st.line_count + 1
      parsed == parse_ndjson_line(line)
      trimmed == Trim(line)
  IN  IF parsed # None
      THEN [st |-> [r.st EXCEPT !.line_count = n,
                                !.messages = Append(@, parsed[1])],
            ret |-> Append(r.ret, parsed[1]), calls |-> r.calls]
      ELSE IF trimmed # << >> /\ trimmed[1] = "{"
      THEN [st |-> [r.st EXCEPT !.line_count = n,
                                !.errors = Append(@, ParseError(line, n - 1))],
            ret |-> r.ret, calls |-> r.calls]
      ELSE [st |-> [r.st EXCEPT !.line_count = n], ret |-> r.ret, calls |-> r.calls]

\* The body of the loop over complete lines (and of flush): count the line,
\* call on_raw_line, then a message (collected, then on_message), a
\* ParseError (collected, then on_error) or nothing.
LineStep(r, line) ==
  LET n == r.st.line_count + 1
      parsed == parse_ndjson_line(line)
      trimmed == Trim(line)
      raw == IF r.st.on_raw_line THEN << RawLineCall(line, n) >> ELSE << >>
  IN  IF parsed # None
      THEN [st |-> [r.st EXCEPT !.line_count = n,
                                !.messages = Append(@, parsed[1])],
            ret |-> Append(r.ret, parsed[1]),
            calls |-> r.calls \o raw
                        \o (IF r.st.on_message THEN << MessageCall(parsed[1], n) >>
                            ELSE << >>)]
      ELSE IF trimmed # << >> /\ trimmed[1] = "{"
      THEN [st |-> [r.st EXCEPT !.line_count = n,
                                !.errors = Append(@, ParseError(line, n))],
            ret |-> r.ret,
            calls |-> r.calls \o raw
                        \o (IF r.st.on_error THEN << ErrorCall(ParseError(line, n)) >>
                            ELSE << >>)]
      ELSE [st |-> [r.st EXCEPT !.line_count = n], ret |-> r.ret,
            calls |-> r.calls \o raw]

RECURSIVE FoldLines(_, _)
FoldLines(r, lines) ==
  IF lines = << >> THEN r ELSE FoldLines(LineStep(r, lines[1]), Tail(lines))

\* Mutant of Process: the end of the chunk is taken as the end of a line.
ProcessEager(st, chunk) ==
  LET lines == SplitLines(st.buffer \o chunk, << >>)
      last == lines[Len(lines)]
      complete_lines == IF last = << >> THEN SubSeq(lines, 1, Len(lines) - 1) ELSE lines
  IN  FoldLines([st |-> [st EXCEPT !.buffer = << >>], ret |-> << >>, calls |-> << >>],
                complete_lines)

\* Mutant of Process: the chunk replaces the pending buffer instead of being
\* appended to it.
ProcessDropPartial(st, chunk) ==
  LET lines == SplitLines(chunk, << >>)
      complete_lines == SubSeq(lines, 1, Len(lines) - 1)
      last == lines[Len(lines)]
  IN  FoldLines([st |-> [st EXCEPT !.buffer = last], ret |-> << >>, calls |-> << >>],
                complete_lines)

\* JsonOutputStream::process
Process(st, chunk) ==
  LET lines == SplitLines(st.buffer \o chunk, << >>)
      complete_lines == SubSeq(lines, 1, Len(lines) - 1)
      last == lines[Len(lines)]
  IN  FoldLines([st |-> [st EXCEPT !.buffer = last], ret |-> << >>, calls |-> << >>],
                complete_lines)

\* Mutant of Flush: the pending buffer is read but not taken.
FlushKeepBuffer(st) ==
  IF Trim(st.buffer) = << >> THEN [st |-> st, ret |-> << >>, calls |-> << >>]
  ELSE LineStep([st |-> st, ret |-> << >>, calls |-> << >>], st.buffer)

\* Mutant of Flush: the pending buffer is dropped unread.
FlushDiscards(st) == [st |-> [st EXCEPT !.buffer = << >>], ret |-> << >>, calls |-> << >>]

\* JsonOutputStream::flush
Flush(st) ==
  IF Trim(st.buffer) = << >> THEN [st |-> st, ret |-> << >>, calls |-> << >>]
  ELSE LineStep([st |-> [st EXCEPT !.buffer = << >>], ret |-> << >>, calls |-> << >>],
                st.buffer)

\* Mutant of Reset: the pending buffer survives.
ResetKeepsBuffer(st) ==
  [st EXCEPT !.messages = << >>, !.errors = << >>, !.line_count = 0]

\* JsonOutputStream::reset: the observers stay registered.
Reset(st) ==
  [st EXCEPT !.buffer = << >>, !.messages = << >>, !.errors = << >>,
             !.line_count = 0]

\* str::lines / BufReader::lines: the segments between newlines, without the
\* empty segment after a final newline.
StrLines(s) ==
  LET segs == SplitLines(s, << >>)
  IN  IF segs[Len(segs)] = << >> THEN SubSeq(segs, 1, Len(segs) - 1) ELSE segs

\* Mutant of ParseAllLines: parsing ends at the first line that yields no value.
RECURSIVE ParseUntilNoise(_)
ParseUntilNoise(lines) ==
  IF lines = << >> THEN << >>
  ELSE IF parse_ndjson_line(lines[1]) = None THEN << >>
  ELSE parse_ndjson_line(lines[1]) \o ParseUntilNoise(Tail(lines))

\* parse_ndjson: the values of the lines that parse, in order.
RECURSIVE ParseAllLines(_)
ParseAllLines(lines) ==
  IF lines = << >> THEN << >>
  ELSE parse_ndjson_line(lines[1]) \o ParseAllLines(Tail(lines))

parse_ndjson(data) == ParseAllLines(StrLines(data))

(***************************************************************************)
(* streaming/input_stream.rs: JsonInputStream [compact, messages].          *)
(* The keys "content" and "type" are written with one character of the     *)
(* alphabet each, in the order the map keeps them ("content" < "type").    *)
(***************************************************************************)
CONTENT == << "a" >>
TYPE == << "u" >>

\* JsonInputStream::new
NewInput(compact) == [compact |-> compact, messages |-> << >>]

\* JsonInputStream::from_messages
from_messages(messages, compact) == [compact |-> compact, messages |-> messages]

\* Mutant of add: a null message is buffered like any other.
AddKeepsNull(s, message) == [s EXCEPT !.messages = Append(@, message)]

\* JsonInputStream::add
add(s, message) ==
  IF message.t # "null" THEN [s EXCEPT !.messages = Append(@, message)] ELSE s

\* JsonInputStream::add_prompt: json!({"type": "user_prompt", "content": content})
add_prompt(s, content) ==
  add(s, JObj(MapInsert(MapInsert(<< >>, TYPE,
                                  JStr(<< "u", "s", "e", "r", "_", "p", "r", "o", "m", "p", "t" >>)),
                        CONTENT, JStr(content))))

\* JsonInputStream::add_system_message: json!({"type": "system", "content": content})
add_system_message(s, content) ==
  add(s, JObj(MapInsert(MapInsert(<< >>, TYPE, JStr(<< "s", "y", "s", "t", "e", "m" >>)),
                        CONTENT, JStr(content))))

\* The loop of add_config: every entry of cfg inserted into obj.
RECURSIVE InsertAll(_, _)
InsertAll(obj, cfg) ==
  IF cfg = << >> THEN obj
  ELSE InsertAll(MapInsert(obj, cfg[1][1], cfg[1][2]), Tail(cfg))

\* JsonInputStream::add_config: {"type": "config"} with the entries of config
\* merged in when config is an object.
add_config(s, value) ==
  LET msg == << << TYPE, JStr(<< "c", "o", "n", "f", "i", "g" >>) >> >>
  IN  add(s, JObj(IF value.t = "obj" THEN InsertAll(msg, value.v) ELSE msg))

\* JsonInputStream::to_string: the lines of the messages, collected in order.
RECURSIVE JsonInputStream_to_string(_)
JsonInputStream_to_string(s) ==
  IF s.messages = << >> THEN << >>
  ELSE stringify_ndjson_line(s.messages[1], s.compact)
         \o JsonInputStream_to_string([s EXCEPT !.messages = Tail(@)])

\* JsonInputStream::size
size(s) == Len(s.messages)

\* JsonInputStream::clear
clear(s) == [s EXCEPT !.messages = << >>]

(***************************************************************************)
(* tools/*.rs: extract_session_id.  The keys session_id, thread_id and     *)
(* conversation_id are written with one character of the alphabet each.    *)
(***************************************************************************)
SESSION_ID == << "a" >>
THREAD_ID == << "l" >>
CONVERSATION_ID == << "n" >>

\* tools::is_tool_supported
is_tool_supported(tool) == tool \in {"claude", "codex", "opencode", "agent", "gemini"}

\* msg.get(key).and_then(|v| v.as_str()): Some(text) or None.
GetStr(msg, key) ==
  IF msg.t # "obj" THEN None
  ELSE LET hits == {i \in 1..Len(msg.v) : msg.v[i][1] = key /\ msg.v[i][2].t = "str"}
       IN  IF hits = {} THEN None ELSE Some(msg.v[CHOOSE i \in hits : TRUE][2].v)

\* The loop of extract_session_id: the first message holding one of the keys,
\* the keys tried in order within a message.
RECURSIVE FirstId(_, _)
FirstId(msgs, keys) ==
  IF msgs = << >> THEN None
  ELSE LET found == {i \in 1..Len(keys) : GetStr(msgs[1], keys[i]) # None}
       IN  IF found # {} THEN GetStr(msgs[1], keys[SetMin(found)])
           ELSE FirstId(Tail(msgs), keys)

\* tools::<tool>::extract_session_id, for the tools Agent::stop dispatches to.
extract_session_id(tool, output) ==
  FirstId(parse_ndjson(output),
          IF tool = "codex" THEN << THREAD_ID, SESSION_ID >>
          ELSE IF tool = "gemini" THEN << SESSION_ID, CONVERSATION_ID >>
          ELSE << SESSION_ID >>)

(***************************************************************************)
(* executor.rs.  A spawned child is the record of what it will do:         *)
(*   [out, err: the text it writes to stdout and stderr; status: its exit  *)
(*    code, None when killed by a signal; fault: where the parent's read   *)
(*    or wait fails with an I/O error: "none", "stdout", "stderr", "wait"] *)
(* The texts here fit the pipes; draining with pipes of bounded capacity   *)
(* is modelled separately (SpecDrain).                                     *)
(***************************************************************************)
\* The read loop over BufReader::lines: every line, then a newline.
RECURSIVE JoinLines(_)
JoinLines(lines) ==
  IF lines = << >> THEN << >>
  ELSE lines[1] \o << NL >> \o JoinLines(Tail(lines))

ReadLines(raw) == JoinLines(StrLines(raw))

\* Result<_, std::io::Error>
Ok(x) == [ok |-> TRUE, err |-> "", val |-> x]
Err(e, x) == [ok |-> FALSE, err |-> e, val |-> x]

ExecutionResult(code, out, err, command) ==
  [exit_code |-> code, stdout |-> out, stderr |-> err, command |-> command]

\* Mutant of ExitCode: an unavailable code is reported as 0.
ExitCodeDefaultZero(status) == IF status = None THEN 0 ELSE status[1]

\* status.code().unwrap_or(1)
ExitCode(status) == IF status = None THEN 1 ELSE status[1]

\* execute_command: [ret, spawned: the commands spawned, waited: the number
\* of children waited for].  spawn_ok: whether Command::spawn succeeds.
execute_command(command, dry_run, attached, child, spawn_ok) ==
  IF dry_run
  THEN [ret |-> Ok(ExecutionResult(0, << >>, << >>, command)),
        spawned |-> << >>, waited |-> 0]
  ELSE IF ~spawn_ok
  THEN [ret |-> Err("spawn", ExecutionResult(0, << >>, << >>, << >>)),
        spawned |-> << >>, waited |-> 0]
  ELSE IF child.fault \in {"stdout", "stderr", "wait"}
  THEN [ret |-> Err("io", ExecutionResult(0, << >>, << >>, << >>)),
        spawned |-> << command >>, waited |-> 0]
  ELSE [ret |-> Ok(ExecutionResult(ExitCode(child.status), ReadLines(child.out),
                                   ReadLines(child.err), command)),
        spawned |-> << command >>, waited |-> 1]

\* ProcessHandle::new
NewHandle(command, child) ==
  [command |-> command, child |-> Some(child), stdout |-> << >>, stderr |-> << >>,
   exit_code |-> None]

\* ProcessHandle::get_output
get_output(h) == << h.stdout, h.stderr, h.exit_code >>

\* ProcessHandle::has_exited
has_exited(h) == h.exit_code # None

\* start_command: [ret: Ok(Some(handle)) or Err, spawned].
start_command(command, attached, child, spawn_ok) ==
  IF ~spawn_ok THEN [ret |-> Err("spawn", None), spawned |-> << >>]
  ELSE [ret |-> Ok(Some(NewHandle(command, child))), spawned |-> << command >>]

\* Mutant of wait_for_exit: the cached exit code is not consulted.
WaitForExitNoCache(h) ==
  IF h.child = None THEN [h |-> h, ret |-> Ok(1), waited |-> 0]
  ELSE [h |-> [h EXCEPT !.child = None,
                        !.stdout = @ \o ReadLines(h.child[1].out),
                        !.stderr = @ \o ReadLines(h.child[1].err),
                        !.exit_code = Some(ExitCode(h.child[1].status))],
        ret |-> Ok(ExitCode(h.child[1].status)), waited |-> 1]

\* ProcessHandle::wait_for_exit: [h, ret, waited].
wait_for_exit(h) ==
  IF h.exit_code # None THEN [h |-> h, ret |-> Ok(h.exit_code[1]), waited |-> 0]
  ELSE IF h.child = None THEN [h |-> h, ret |-> Ok(1), waited |-> 0]
  ELSE LET child == h.child[1]
           taken == [h EXCEPT !.child = None]
       IN  IF child.fault = "stdout"
           THEN [h |-> taken, ret |-> Err("io", 0), waited |-> 0]
           ELSE IF child.fault = "stderr"
           THEN [h |-> [taken EXCEPT !.stdout = @ \o ReadLines(child.out)],
                 ret |-> Err("io", 0), waited |-> 0]
           ELSE IF child.fault = "wait"
           THEN [h |-> [taken EXCEPT !.stdout = @ \o ReadLines(child.out),
                                     !.stderr = @ \o ReadLines(child.err)],
                 ret |-> Err("io", 0), waited |-> 0]
           ELSE [h |-> [taken EXCEPT !.stdout = @ \o ReadLines(child.out),
                                     !.stderr = @ \o ReadLines(child.err),
                                     !.exit_code = Some(ExitCode(child.status))],
                 ret |-> Ok(ExitCode(child.status)), waited |-> 1]

\* setup_signal_handler: what it creates.  [pc: where the polling thread is,
\* "load" (about to load the flag), "sleep", "cleanup" (the flag was seen set,
\* cleanup_clone() comes next) or "done" (left the loop); shutdown: the
\* AtomicBool; removed: the returned function has been called; cleanups: the
\* calls of cleanup_fn so far]
setup_signal_handler ==
  [pc |-> "load", shutdown |-> FALSE, removed |-> FALSE, cleanups |-> 0]

\* The function setup_signal_handler returns: shutdown.store(true).
remove_handler(h) == [h EXCEPT !.shutdown = TRUE, !.removed = TRUE]

\* One pass of the polling thread from where it is.
thread_step(h) ==
  CASE h.pc = "load" -> [h EXCEPT !.pc = IF h.shutdown THEN "cleanup" ELSE "sleep"]
    [] h.pc = "cleanup" -> [h EXCEPT !.cleanups = @ + 1, !.pc = "done"]
    [] h.pc = "sleep" -> [h EXCEPT !.pc = "load"]
    [] OTHER -> h

(***************************************************************************)
(* command_builder.rs.  A command is a sequence of tokens.  The per-tool   *)
(* argument tables are not modelled: the base command is the tool name.    *)
(***************************************************************************)
\* build_agent_command
build_agent_command(o, detached) ==
  LET full == << "bash -c cd", o.working_directory, "&&", o.tool >>
  IN  CASE o.isolation = "screen" ->
             << "screen", IF detached THEN "-dmS" ELSE "-S" >> \o o.screen_name \o full
        [] o.isolation = "docker" ->
             << "docker run", IF detached THEN "-d" ELSE "-it", "--name" >>
               \o o.container_name \o full
        [] OTHER -> full

\* Mutant of build_screen_stop_command: the session is not named.
ScreenStopWithoutName(screen_name) == << "screen", "-X quit" >>

\* build_screen_stop_command
build_screen_stop_command(screen_name) == << "screen -S", screen_name, "-X quit" >>

\* build_docker_stop_command
build_docker_stop_command(container_name) ==
  << "docker stop", container_name, "&& docker rm", container_name >>

(***************************************************************************)
(* lib.rs: the Agent controller                                            *)
(*   [options, process_handle, output_stream, session_id]                  *)
(* AgentOptions: [tool, working_directory, isolation, screen_name,         *)
(* container_name, json]; prompt, system_prompt, model and resume only     *)
(* reach the per-tool argument tables and are left out.                    *)
(***************************************************************************)
AgentResult(code, plain, parsed, sid) ==
  [exit_code |-> code, plain_output |-> plain, parsed_output |-> parsed,
   session_id |-> sid]

\* AgentResult::default()
DefaultResult == AgentResult(0, << >>, None, None)

\* The controller Agent::new builds.
NewAgent(options) ==
  [options |-> options, process_handle |-> None, output_stream |-> None,
   session_id |-> None]

\* Mutant of Agent::new: the screen_name check is missing.
NewWithoutScreenCheck(options) ==
  IF options.tool = "" THEN Err("tool is required", None)
  ELSE IF options.working_directory = "" THEN Err("working_directory is required", None)
  ELSE IF options.isolation = "docker" /\ options.container_name = None
  THEN Err("container_name is required for docker isolation", None)
  ELSE Ok(Some(NewAgent(options)))

\* Agent::new: Ok(Some(controller)) or Err(message, None).
New(options) ==
  IF options.tool = "" THEN Err("tool is required", None)
  ELSE IF options.working_directory = "" THEN Err("working_directory is required", None)
  ELSE IF options.isolation = "screen" /\ options.screen_name = None
  THEN Err("screen_name is required for screen isolation", None)
  ELSE IF options.isolation = "docker" /\ options.container_name = None
  THEN Err("container_name is required for docker isolation", None)
  ELSE Ok(Some(NewAgent(options)))

\* Mutant of Start: the dry-run check comes after the spawn.
StartSpawnsOnDryRun(ag, so, child, spawn_ok) ==
  LET with_stream == IF ag.options.json
                     THEN [ag EXCEPT !.output_stream = Some(NewStream)]
                     ELSE ag
      command == build_agent_command(ag.options, so.detached)
  IN  IF ~spawn_ok
      THEN [ag |-> with_stream, ret |-> Err("spawn", DefaultResult),
            spawned |-> << >>, waited |-> 0]
      ELSE IF so.dry_run \/ so.detached
      THEN [ag |-> with_stream, ret |-> Ok(DefaultResult),
            spawned |-> << command >>, waited |-> 0]
      ELSE [ag |-> [with_stream EXCEPT !.process_handle = Some(NewHandle(command, child))],
            ret |-> Ok(DefaultResult), spawned |-> << command >>, waited |-> 0]

\* Mutant of Start: a detached start keeps a handle too.
StartDetachedKeepsHandle(ag, so, child, spawn_ok) ==
  LET with_stream == IF ag.options.json
                     THEN [ag EXCEPT !.output_stream = Some(NewStream)]
                     ELSE ag
      command == build_agent_command(ag.options, so.detached)
  IN  IF so.dry_run
      THEN [ag |-> with_stream, ret |-> Ok(DefaultResult),
            spawned |-> << >>, waited |-> 0]
      ELSE IF ~spawn_ok
      THEN [ag |-> with_stream, ret |-> Err("spawn", DefaultResult),
            spawned |-> << >>, waited |-> 0]
      ELSE [ag |-> [with_stream EXCEPT !.process_handle = Some(NewHandle(command, child))],
            ret |-> Ok(DefaultResult), spawned |-> << command >>, waited |-> 0]

\* Agent::start with start options so = [dry_run, detached, attached]:
\* [ag, ret, spawned, waited].
Start(ag, so, child, spawn_ok) ==
  LET with_stream == IF ag.options.json
                     THEN [ag EXCEPT !.output_stream = Some(NewStream)]
                     ELSE ag
      command == build_agent_command(ag.options, so.detached)
  IN  IF so.dry_run
      THEN [ag |-> with_stream, ret |-> Ok(DefaultResult),
            spawned |-> << >>, waited |-> 0]
      ELSE IF ~spawn_ok
      THEN [ag |-> with_stream, ret |-> Err("spawn", DefaultResult),
            spawned |-> << >>, waited |-> 0]
      ELSE IF so.detached
      THEN [ag |-> with_stream, ret |-> Ok(DefaultResult),
            spawned |-> << command >>, waited |-> 0]
      ELSE [ag |-> [with_stream EXCEPT !.process_handle = Some(NewHandle(command, child))],
            ret |-> Ok(DefaultResult), spawned |-> << command >>, waited |-> 0]

\* Mutant of StopHandle: stderr is appended to the plain output even when it
\* is empty.
StopHandleAlwaysJoins(ag) ==
  LET w == wait_for_exit(ag.process_handle[1])
      held == [ag EXCEPT !.process_handle = Some(w.h)]
      plain_output == w.h.stdout \o << NL >> \o w.h.stderr
  IN  IF ~w.ret.ok
      THEN [ag |-> held, ret |-> Err(w.ret.err, DefaultResult),
            spawned |-> << >>, waited |-> 0]
      ELSE [ag |-> held,
            ret |-> Ok(AgentResult(w.ret.val, plain_output, None, ag.session_id)),
            spawned |-> << >>, waited |-> w.waited]

\* The isolation-free branch of Agent::stop, the handle present.
StopHandle(ag) ==
  LET w == wait_for_exit(ag.process_handle[1])
      held == [ag EXCEPT !.process_handle = Some(w.h)]
      stdout == w.h.stdout
      stderr == w.h.stderr
      plain_output == IF stderr = << >> THEN stdout ELSE stdout \o << NL >> \o stderr
      stream == IF ag.output_stream = None THEN None
                ELSE Some(Flush(Process(ag.output_stream[1], stdout).st).st)
      parsed_output == IF stream = None \/ stream[1].messages = << >> THEN None
                       ELSE Some(stream[1].messages)
      sid == IF is_tool_supported(ag.options.tool)
             THEN CASE ag.options.tool = "claude" -> extract_session_id("claude", plain_output)
                    [] ag.options.tool = "codex" -> extract_session_id("codex", plain_output)
                    [] ag.options.tool = "opencode" -> extract_session_id("opencode", plain_output)
                    [] ag.options.tool = "agent" -> extract_session_id("agent", plain_output)
                    [] OTHER -> ag.session_id
             ELSE ag.session_id
  IN  IF ~w.ret.ok
      THEN [ag |-> held, ret |-> Err(w.ret.err, DefaultResult),
            spawned |-> << >>, waited |-> 0]
      ELSE [ag |-> [held EXCEPT !.output_stream = stream, !.session_id = sid],
            ret |-> Ok(AgentResult(w.ret.val, plain_output, parsed_output, sid)),
            spawned |-> << >>, waited |-> w.waited]

\* Agent::stop with stop options [dry_run]: [ag, ret, spawned, waited].
Stop(ag, dry_run, child, spawn_ok) ==
  IF ag.options.isolation \in {"screen", "docker"}
  THEN LET name == IF ag.options.isolation = "screen"
                   THEN ag.options.screen_name ELSE ag.options.container_name
           stop_command == IF ag.options.isolation = "screen"
                           THEN build_screen_stop_command(name[1])
                           ELSE build_docker_stop_command(name[1])
           result == execute_command(stop_command, FALSE, TRUE, child, spawn_ok)
       IN  IF name = None
           THEN [ag |-> ag,
                 ret |-> Err(IF ag.options.isolation = "screen"
                             THEN "screen_name is required to stop screen session"
                             ELSE "container_name is required to stop docker container",
                             DefaultResult),
                 spawned |-> << >>, waited |-> 0]
           ELSE IF dry_run
           THEN [ag |-> ag, ret |-> Ok(DefaultResult), spawned |-> << >>, waited |-> 0]
           ELSE IF ~result.ret.ok
           THEN [ag |-> ag, ret |-> Err(result.ret.err, DefaultResult),
                 spawned |-> result.spawned, waited |-> result.waited]
           ELSE [ag |-> ag,
                 ret |-> Ok(AgentResult(result.ret.val.exit_code, result.ret.val.stdout,
                                        None, None)),
                 spawned |-> result.spawned, waited |-> result.waited]
  ELSE IF ag.options.isolation \in {"none", ""}
  THEN IF ag.process_handle = None
       THEN [ag |-> ag, ret |-> Err("Agent not started or already stopped", DefaultResult),
             spawned |-> << >>, waited |-> 0]
       ELSE StopHandle(ag)
  ELSE [ag |-> ag, ret |-> Err("Unsupported isolation mode", DefaultResult),
        spawned |-> << >>, waited |-> 0]

(***************************************************************************)
(* State.                                                                  *)
(*   os        the JsonOutputStream under test                             *)
(*   os_call   the last call made on it: new, process, flush or reset      *)
(*   os_ret    the Vec<Value> that call returned                           *)
(*   os_fed    the text passed to process() since new()/reset()            *)
(*   os_mode   "fed": only process() calls since new()/reset();            *)
(*             "flushed": process() calls, then flush() calls only;        *)
(*             "mixed": process() was called again after a flush()         *)
(*   os_split  os_fed was passed in more than one non-empty chunk          *)
(*                                                                         *)
(*   cv        the Value of the codec round trip                           *)
(*   c_pc      "value": cv is being built; "line": stringify_ndjson_line   *)
(*             was applied; "parsed": parse_ndjson_line was applied        *)
(*   c_compact the compact flag stringify_ndjson_line was called with      *)
(*   c_line    the text stringify_ndjson_line returned                     *)
(*   c_parsed  the Option<Value> parse_ndjson_line returned                *)
(*                                                                         *)
(*   config    the AgentOptions passed to Agent::new                       *)
(*   agent     the controller: None before Agent::new and when it failed   *)
(*   a_call    the last call: [op, dry_run, detached]                      *)
(*   a_ret     what that call returned: [ok, err, val]                     *)
(*   a_calls   the number of calls made after Agent::new                   *)
(*   spawned   the commands spawned as subprocesses so far                 *)
(*   waited    the number of completed child.wait() calls so far           *)
(*   a_started whether a start that was neither detached nor a dry run has *)
(*             returned Ok (history)                                       *)
(*   a_child   the child execute_command ran in the last call, None when   *)
(*             it ran none (history)                                       *)
(*   handle    the ProcessHandle start_command returned to a caller that   *)
(*             uses the executor directly, None before                     *)
(*   h_codes   the exit codes wait_for_exit has returned on that handle,   *)
(*             in order (history)                                          *)
(*                                                                         *)
(*   d_api      the function draining the child: "execute_command" or      *)
(*              "wait_for_exit" (after start_command)                      *)
(*   d_pc       where that function is: "started" (start_command has       *)
(*              returned, wait_for_exit not yet called), "stdout" (in the   *)
(*              stdout loop), "stderr" (in the stderr loop), "wait" (in     *)
(*              child.wait()), "done" (returned)                            *)
(*   d_prog     the lines the child has still to write, each to "out" or   *)
(*              "err"                                                      *)
(*   child_st   "running", "exited" (both pipes closed) or "reaped"        *)
(*   pipe_out   the lines in the stdout pipe                               *)
(*   pipe_err   the lines in the stderr pipe                               *)
(*   d_stdout   the lines accumulated from stdout                          *)
(*   d_stderr   the lines accumulated from stderr                          *)
(*                                                                         *)
(*   p_text     the text handed to parse_ndjson                            *)
(*   p_pc       "text" while the text is put together, "parsed" after the  *)
(*              call of parse_ndjson, "streamed" after the same text has   *)
(*              also gone through a fresh JsonOutputStream                 *)
(*   p_result   the Vec<Value> parse_ndjson returned                       *)
(*   p_msgs     get_messages() of that stream after process(p_text) and    *)
(*              flush()                                                    *)
(*                                                                         *)
(*   tw_obs     a JsonOutputStream on which observers may be registered    *)
(*              and which may be reset                                     *)
(*   tw_ref     the reference stream: created by JsonOutputStream::new     *)
(*              when tw_obs was created or last reset, never given an      *)
(*              observer, and passed every process and flush call tw_obs   *)
(*              is passed                                                  *)
(*   tw_call    the last call on tw_obs                                    *)
(*   tw_ret     what that call returned on tw_obs                          *)
(*   tw_ref_ret what it returned on tw_ref                                 *)
(*   tw_calls   the callback invocations that call made                    *)
(*   tw_n       the number of calls so far                                 *)
(*   tw_dropped None before the first reset, then Some(the pending buffer  *)
(*              the last reset discarded) (history)                        *)
(*                                                                         *)
(*   ins        the JsonInputStream under test                             *)
(*   in_call    the last call made on it: [op, arg], arg the Value passed  *)
(*              (the content of a prompt or system message as a string     *)
(*              Value, null for a call without argument)                   *)
(*   in_ret     the text that call returned (to_string), empty for a call  *)
(*              that returns the stream itself                             *)
(*                                                                         *)
(*   sg_handlers   what each setup_signal_handler call so far created      *)
(*   sg_alive      the process is running                                  *)
(*   sg_interrupts the interrupt signals delivered to the process so far   *)
(***************************************************************************)
VARIABLES os, os_call, os_ret, os_fed, os_mode, os_split,
          cv, c_pc, c_compact, c_line, c_parsed,
          config, agent, a_call, a_ret, a_calls, spawned, waited,
          a_started, a_child, handle, h_codes,
          d_api, d_pc, d_prog, child_st, pipe_out, pipe_err, d_stdout, d_stderr,
          p_text, p_pc, p_result, p_msgs,
          tw_obs, tw_ref, tw_call, tw_ret, tw_ref_ret, tw_calls, tw_n, tw_dropped,
          ins, in_call, in_ret,
          sg_handlers, sg_alive, sg_interrupts

streamVars == << os, os_call, os_ret, os_fed, os_mode, os_split >>
codecVars == << cv, c_pc, c_compact, c_line, c_parsed >>
agentVars == << config, agent, a_call, a_ret, a_calls, spawned, waited,
               a_started, a_child, handle, h_codes >>

drainVars == << d_api, d_pc, d_prog, child_st, pipe_out, pipe_err, d_stdout, d_stderr >>

parseVars == << p_text, p_pc, p_result, p_msgs >>
twinVars == << tw_obs, tw_ref, tw_call, tw_ret, tw_ref_ret, tw_calls, tw_n, tw_dropped >>
inputVars == << ins, in_call, in_ret >>
signalVars == << sg_handlers, sg_alive, sg_interrupts >>

vars == << streamVars, codecVars, agentVars, drainVars, parseVars, twinVars, inputVars, signalVars >>

\* What the actions of one component leave alone.
notStream == << codecVars, agentVars, drainVars, parseVars, twinVars, inputVars, signalVars >>
notCodec == << streamVars, agentVars, drainVars, parseVars, twinVars, inputVars, signalVars >>
notAgent == << streamVars, codecVars, drainVars, parseVars, twinVars, inputVars, signalVars >>
notDrain == << streamVars, codecVars, agentVars, parseVars, twinVars, inputVars, signalVars >>
notParse == << streamVars, codecVars, agentVars, drainVars, twinVars, inputVars, signalVars >>
notTwin == << streamVars, codecVars, agentVars, drainVars, parseVars, inputVars, signalVars >>
notInput == << streamVars, codecVars, agentVars, drainVars, parseVars, twinVars, signalVars >>
notSignal == << streamVars, codecVars, agentVars, drainVars, parseVars, twinVars, inputVars >>

\* Bounds of the stream session: the characters of a chunk, the length of a
\* chunk and the length of the text fed between two resets.
MaxChunk == 2
MaxFed == 4

StreamChar == {"{", "}", "[", "]", "1", SP, NL}

Chunks == UNION {[1..n -> StreamChar] : n \in 0..MaxChunk}

\* stream.process(chunk)
StreamProcess(chunk) ==
  /\ Len(os_fed) + Len(chunk) <= MaxFed
  /\ LET r == Process(os, chunk)
     IN  /\ os' = r.st
         /\ os_ret' = r.ret
  /\ os_call' = "process"
  /\ os_fed' = os_fed \o chunk
  /\ os_mode' = IF os_mode = "fed" THEN "fed" ELSE "mixed"
  /\ os_split' = (os_split \/ (os_fed # << >> /\ chunk # << >>))
  /\ UNCHANGED notStream

\* stream.flush()
StreamFlush ==
  /\ LET r == Flush(os)
     IN  /\ os' = r.st
         /\ os_ret' = r.ret
  /\ os_call' = "flush"
  /\ os_mode' = IF os_mode = "mixed" THEN "mixed" ELSE "flushed"
  /\ UNCHANGED << os_fed, os_split >>
  /\ UNCHANGED notStream

\* stream.reset()
StreamReset ==
  /\ os' = Reset(os)
  /\ os_call' = "reset"
  /\ os_ret' = << >>
  /\ os_fed' = << >>
  /\ os_mode' = "fed"
  /\ os_split' = FALSE
  /\ UNCHANGED notStream

StreamNext ==
  \/ \E chunk \in Chunks : StreamProcess(chunk)
  \/ StreamFlush
  \/ StreamReset

(***************************************************************************)
(* The codec round trip: a Value is built, stringify_ndjson_line is        *)
(* applied to it and parse_ndjson_line to the result.                      *)
(***************************************************************************)
\* Bound of the codec session: the number of nodes of the Value.
MaxNodes == 3

CodecKeys == {<< "a" >>, << "n" >>}

CodecLeaves ==
  {JNull, JNum(1), JNum(11), JStr(<< "a" >>), JStr(<< QUOTE, BSLASH, NL >>),
   JArr(<< >>), JObj(<< >>)}

\* The number of nodes of a Value.
RECURSIVE Nodes(_), NodesOfAll(_)
NodesOfAll(xs) ==
  IF xs = << >> THEN 0 ELSE Nodes(xs[1]) + NodesOfAll(Tail(xs))
Nodes(x) ==
  CASE x.t = "arr" -> 1 + NodesOfAll(x.v)
    [] x.t = "obj" -> 1 + NodesOfAll([i \in 1..Len(x.v) |-> x.v[i][2]])
    [] OTHER -> 1

CodecGrow(x) ==
  /\ c_pc = "value"
  /\ Nodes(x) <= MaxNodes
  /\ cv' = x
  /\ UNCHANGED << c_pc, c_compact, c_line, c_parsed >>
  /\ UNCHANGED notCodec

\* json!([cv])
CodecWrapArray == CodecGrow(JArr(<< cv >>))

\* Vec::push on an array
CodecPush(x) ==
  /\ cv.t = "arr"
  /\ CodecGrow(JArr(Append(cv.v, x)))

\* json!({k: cv})
CodecWrapObject(k) == CodecGrow(JObj(<< <<k, cv>> >>))

\* Map::insert on an object
CodecInsert(k, x) ==
  /\ cv.t = "obj"
  /\ CodecGrow(JObj(MapInsert(cv.v, k, x)))

\* stringify_ndjson_line(&cv, compact)
CodecStringify(compact) ==
  /\ c_pc = "value"
  /\ c_pc' = "line"
  /\ c_compact' = compact
  /\ c_line' = stringify_ndjson_line(cv, compact)
  /\ UNCHANGED << cv, c_parsed >>
  /\ UNCHANGED notCodec

\* parse_ndjson_line(&c_line)
CodecParse ==
  /\ c_pc = "line"
  /\ c_pc' = "parsed"
  /\ c_parsed' = parse_ndjson_line(c_line)
  /\ UNCHANGED << cv, c_compact, c_line >>
  /\ UNCHANGED notCodec

CodecNext ==
  \/ CodecWrapArray
  \/ \E x \in CodecLeaves : CodecPush(x)
  \/ \E k \in CodecKeys : CodecWrapObject(k)
  \/ \E k \in CodecKeys, x \in CodecLeaves : CodecInsert(k, x)
  \/ \E compact \in BOOLEAN : CodecStringify(compact)
  \/ CodecParse

(***************************************************************************)
(* A session is either the life of one controller (Agent::new, then start  *)
(* and stop calls in any order) or a run of direct calls of the executor   *)
(* (execute_command, start_command, wait_for_exit on the returned handle). *)
(***************************************************************************)
\* Bound of the controller session: the number of calls after Agent::new.
MaxCalls == 3

Tools == {"", "claude", "gemini", "sh"}
WorkingDirs == {"", "/w"}
Isolations == {"", "none", "screen", "docker", "tmux"}

Configs ==
  [tool : Tools, working_directory : WorkingDirs, isolation : Isolations,
   screen_name : {None, Some("s")}, container_name : {None, Some("c")},
   json : BOOLEAN]

\* What a spawned child may do.
ChildRuns ==
  {[out |-> << "{", QUOTE, "a", QUOTE, ":", QUOTE, "1", QUOTE, "}", NL >>, err |-> << >>,
    status |-> Some(0), fault |-> "none"],
   [out |-> << "1" >>, err |-> << "1", NL >>, status |-> None, fault |-> "none"],
   [out |-> << >>, err |-> << >>, status |-> Some(2), fault |-> "none"],
   [out |-> << "[", "]", NL >>, err |-> << >>, status |-> Some(0), fault |-> "stderr"]}

\* What the operating system does with a spawn: << child, spawn_ok >>, the
\* child running as one of ChildRuns or Command::spawn failing.
SpawnOutcomes ==
  {<< child, TRUE >> : child \in ChildRuns}
    \cup {<< CHOOSE child \in ChildRuns : child.fault # "none", FALSE >>}

ACall(op, dry_run, detached) ==
  [op |-> op, dry_run |-> dry_run, detached |-> detached]

StartOptions == [dry_run : BOOLEAN, detached : BOOLEAN, attached : BOOLEAN]

\* Agent::new(options)
AgentNew(options) ==
  /\ a_call.op = "init"
  /\ config' = options
  /\ agent' = New(options).val
  /\ a_ret' = [New(options) EXCEPT !.val = DefaultResult]
  /\ a_call' = ACall("new", FALSE, FALSE)
  /\ UNCHANGED << a_calls, spawned, waited, a_started, a_child, handle, h_codes >>
  /\ UNCHANGED notAgent

\* The effect of a call that returned r = [ag, ret, spawned, waited].
AgentReturn(r) ==
  /\ agent' = Some(r.ag)
  /\ a_ret' = r.ret
  /\ spawned' = spawned \o r.spawned
  /\ waited' = waited + r.waited
  /\ a_calls' = a_calls + 1
  /\ UNCHANGED << config, handle, h_codes >>
  /\ UNCHANGED notAgent

\* agent.start(so)
AgentStart(so, child, spawn_ok) ==
  /\ agent # None
  /\ a_calls < MaxCalls
  /\ a_call' = ACall("start", so.dry_run, so.detached)
  /\ AgentReturn(Start(agent[1], so, child, spawn_ok))
  /\ a_started' = (a_started \/ (~so.dry_run /\ ~so.detached /\ a_ret'.ok))
  /\ a_child' = None

\* agent.stop(AgentStopOptions { dry_run })
AgentStop(dry_run, child, spawn_ok) ==
  /\ agent # None
  /\ a_calls < MaxCalls
  /\ a_call' = ACall("stop", dry_run, FALSE)
  /\ AgentReturn(Stop(agent[1], dry_run, child, spawn_ok))
  /\ a_child' = IF spawned' = spawned THEN None ELSE Some(child)
  /\ UNCHANGED a_started

\* The calls of a session that uses the executor without a controller.
ExecutorOps == {"init", "execute_command", "start_command", "wait_for_exit"}

\* execute_command(command, dry_run, attached), called directly, in a
\* session that builds no controller.
ExecuteCommand(command, dry_run, attached, child, spawn_ok) ==
  /\ a_call.op \in ExecutorOps
  /\ a_calls < MaxCalls
  /\ LET r == execute_command(command, dry_run, attached, child, spawn_ok)
     IN  /\ a_ret' = r.ret
         /\ spawned' = spawned \o r.spawned
         /\ waited' = waited + r.waited
         /\ a_child' = IF r.spawned = << >> THEN None ELSE Some(child)
  /\ a_call' = ACall("execute_command", dry_run, FALSE)
  /\ a_calls' = a_calls + 1
  /\ UNCHANGED << config, agent, a_started, handle, h_codes >>
  /\ UNCHANGED notAgent

\* start_command(command, attached), called directly; the caller keeps the
\* handle it returns.
StartCommand(command, attached, child, spawn_ok) ==
  /\ a_call.op \in ExecutorOps
  /\ a_calls < MaxCalls
  /\ LET r == start_command(command, attached, child, spawn_ok)
     IN  /\ a_ret' = [r.ret EXCEPT !.val = 0]
         /\ handle' = IF r.ret.ok THEN r.ret.val ELSE handle
         /\ h_codes' = IF r.ret.ok THEN << >> ELSE h_codes
         /\ spawned' = spawned \o r.spawned
  /\ a_call' = ACall("start_command", FALSE, FALSE)
  /\ a_calls' = a_calls + 1
  /\ UNCHANGED << config, agent, a_started, a_child, waited >>
  /\ UNCHANGED notAgent

\* handle.wait_for_exit() on the caller's handle.
HandleWait ==
  /\ a_call.op \in ExecutorOps
  /\ handle # None
  /\ a_calls < MaxCalls
  /\ LET r == wait_for_exit(handle[1])
     IN  /\ a_ret' = r.ret
         /\ handle' = Some(r.h)
         /\ waited' = waited + r.waited
         /\ h_codes' = IF r.ret.ok THEN Append(h_codes, r.ret.val) ELSE h_codes
  /\ a_call' = ACall("wait_for_exit", FALSE, FALSE)
  /\ a_calls' = a_calls + 1
  /\ UNCHANGED << config, agent, a_started, a_child, spawned >>
  /\ UNCHANGED notAgent

Next ==
  \/ \E options \in Configs : AgentNew(options)
  \/ \E so \in StartOptions, os_does \in SpawnOutcomes :
       AgentStart(so, os_does[1], os_does[2])
  \/ \E dry_run \in BOOLEAN, os_does \in SpawnOutcomes :
       AgentStop(dry_run, os_does[1], os_does[2])
  \/ \E dry_run \in BOOLEAN, attached \in BOOLEAN, os_does \in SpawnOutcomes :
       ExecuteCommand(<< "true" >>, dry_run, attached, os_does[1], os_does[2])
  \/ \E attached \in BOOLEAN, os_does \in SpawnOutcomes :
       StartCommand(<< "true" >>, attached, os_does[1], os_does[2])
  \/ HandleWait

(***************************************************************************)
(* Draining one child: the child writes its lines to two pipes of bounded  *)
(* capacity while execute_command or wait_for_exit reads them.             *)
(***************************************************************************)
\* Bound: the lines a pipe holds before a write to it blocks.
PipeCap == 2
\* Bound: the lines a child writes.
MaxWrites == 3

RECURSIVE Programs(_)
Programs(n) ==
  IF n = 0 THEN {<< >>}
  ELSE Programs(n - 1) \cup
       {<< w >> \o p : w \in {"out", "err"},
                       p \in {q \in Programs(n - 1) : Len(q) = n - 1}}

\* The child writes its next line; the write blocks while the pipe is full.
ChildWrite ==
  /\ child_st = "running"
  /\ d_prog # << >>
  /\ IF Head(d_prog) = "out"
     THEN pipe_out < PipeCap /\ pipe_out' = pipe_out + 1 /\ UNCHANGED pipe_err
     ELSE pipe_err < PipeCap /\ pipe_err' = pipe_err + 1 /\ UNCHANGED pipe_out
  /\ d_prog' = Tail(d_prog)
  /\ UNCHANGED << d_api, d_pc, child_st, d_stdout, d_stderr >>
  /\ UNCHANGED notDrain

\* The child exits; the write ends of both pipes close.
ChildExit ==
  /\ child_st = "running"
  /\ d_prog = << >>
  /\ child_st' = "exited"
  /\ UNCHANGED << d_api, d_pc, d_prog, pipe_out, pipe_err, d_stdout, d_stderr >>
  /\ UNCHANGED notDrain

\* wait_for_exit is called on the handle start_command returned.
WaitForExitCall ==
  /\ d_pc = "started"
  /\ d_pc' = "stdout"
  /\ UNCHANGED << d_api, d_prog, child_st, pipe_out, pipe_err, d_stdout, d_stderr >>
  /\ UNCHANGED notDrain

\* reader.next_line() on stdout returns a line.
ReadStdout ==
  /\ d_pc = "stdout"
  /\ pipe_out > 0
  /\ pipe_out' = pipe_out - 1
  /\ d_stdout' = d_stdout + 1
  /\ UNCHANGED << d_api, d_pc, d_prog, child_st, pipe_err, d_stderr >>
  /\ UNCHANGED notDrain

\* reader.next_line() on stdout returns None: the pipe is empty and closed.
StdoutEof ==
  /\ d_pc = "stdout"
  /\ pipe_out = 0
  /\ child_st = "exited"
  /\ d_pc' = "stderr"
  /\ UNCHANGED << d_api, d_prog, child_st, pipe_out, pipe_err, d_stdout, d_stderr >>
  /\ UNCHANGED notDrain

\* reader.next_line() on stderr returns a line.
ReadStderr ==
  /\ d_pc = "stderr"
  /\ pipe_err > 0
  /\ pipe_err' = pipe_err - 1
  /\ d_stderr' = d_stderr + 1
  /\ UNCHANGED << d_api, d_pc, d_prog, child_st, pipe_out, d_stdout >>
  /\ UNCHANGED notDrain

\* reader.next_line() on stderr returns None.
StderrEof ==
  /\ d_pc = "stderr"
  /\ pipe_err = 0
  /\ child_st = "exited"
  /\ d_pc' = "wait"
  /\ UNCHANGED << d_api, d_prog, child_st, pipe_out, pipe_err, d_stdout, d_stderr >>
  /\ UNCHANGED notDrain

\* child.wait() returns and the function returns.
ChildWait ==
  /\ d_pc = "wait"
  /\ child_st = "exited"
  /\ child_st' = "reaped"
  /\ d_pc' = "done"
  /\ UNCHANGED << d_api, d_prog, pipe_out, pipe_err, d_stdout, d_stderr >>
  /\ UNCHANGED notDrain

DrainNext ==
  \/ ChildWrite
  \/ ChildExit
  \/ WaitForExitCall
  \/ ReadStdout
  \/ StdoutEof
  \/ ReadStderr
  \/ StderrEof
  \/ ChildWait

(***************************************************************************)
(* parse_ndjson on a whole text: the text is put together from pieces and  *)
(* then parsed once.                                                       *)
(***************************************************************************)
\* Bound: the length of a text.
MaxText == 6

TextPieces ==
  {<< "{", "}" >>, << "[", "]" >>, << "[", "1", "]" >>, << "{" >>, << "1" >>,
   << SP >>, << NL >>}

\* The caller appends a piece to the text.
ParseAppend(piece) ==
  /\ p_pc = "text"
  /\ Len(p_text) + Len(piece) <= MaxText
  /\ p_text' = p_text \o piece
  /\ UNCHANGED << p_pc, p_result, p_msgs >>
  /\ UNCHANGED notParse

\* parse_ndjson(p_text)
ParseAll ==
  /\ p_pc = "text"
  /\ p_result' = parse_ndjson(p_text)
  /\ p_pc' = "parsed"
  /\ UNCHANGED << p_text, p_msgs >>
  /\ UNCHANGED notParse

\* let mut stream = JsonOutputStream::new(); stream.process(p_text);
\* stream.flush(); stream.get_messages()
ParseStream ==
  /\ p_pc = "parsed"
  /\ p_msgs' = Flush(Process(NewStream, p_text).st).st.messages
  /\ p_pc' = "streamed"
  /\ UNCHANGED << p_text, p_result >>
  /\ UNCHANGED notParse

ParseNext ==
  \/ \E piece \in TextPieces : ParseAppend(piece)
  \/ ParseAll
  \/ ParseStream

(***************************************************************************)
(* A stream with observers and resets next to a reference stream without.  *)
(***************************************************************************)
\* Bound: the calls on the stream.
MaxTwinCalls == 5

TwinChunks ==
  {<< "{" >>, << "}", NL >>, << "{", NL >>, << "[", "]" >>, << NL >>}

\* tw_obs.set_on_message(..), set_on_error(..) or set_on_raw_line(..)
TwinSetObserver(which) ==
  /\ tw_n < MaxTwinCalls
  /\ tw_obs' = CASE which = "on_message" -> set_on_message(tw_obs)
                 [] which = "on_error" -> set_on_error(tw_obs)
                 [] which = "on_raw_line" -> set_on_raw_line(tw_obs)
  /\ tw_call' = "set"
  /\ tw_ret' = << >>
  /\ tw_ref_ret' = << >>
  /\ tw_calls' = << >>
  /\ tw_n' = tw_n + 1
  /\ UNCHANGED << tw_ref, tw_dropped >>
  /\ UNCHANGED notTwin

\* process(chunk) on both streams.
TwinProcess(chunk) ==
  /\ tw_n < MaxTwinCalls
  /\ LET r == Process(tw_obs, chunk)
         q == Process(tw_ref, chunk)
     IN  /\ tw_obs' = r.st
         /\ tw_ret' = r.ret
         /\ tw_calls' = r.calls
         /\ tw_ref' = q.st
         /\ tw_ref_ret' = q.ret
  /\ tw_call' = "process"
  /\ tw_n' = tw_n + 1
  /\ UNCHANGED tw_dropped
  /\ UNCHANGED notTwin

\* flush() on both streams.
TwinFlush ==
  /\ tw_n < MaxTwinCalls
  /\ LET r == Flush(tw_obs)
         q == Flush(tw_ref)
     IN  /\ tw_obs' = r.st
         /\ tw_ret' = r.ret
         /\ tw_calls' = r.calls
         /\ tw_ref' = q.st
         /\ tw_ref_ret' = q.ret
  /\ tw_call' = "flush"
  /\ tw_n' = tw_n + 1
  /\ UNCHANGED tw_dropped
  /\ UNCHANGED notTwin

\* tw_obs.reset(); the reference is created anew.
TwinReset ==
  /\ tw_n < MaxTwinCalls
  /\ tw_obs' = Reset(tw_obs)
  /\ tw_ref' = NewStream
  /\ tw_dropped' = Some(tw_obs.buffer)
  /\ tw_call' = "reset"
  /\ tw_ret' = << >>
  /\ tw_ref_ret' = << >>
  /\ tw_calls' = << >>
  /\ tw_n' = tw_n + 1
  /\ UNCHANGED notTwin

TwinNext ==
  \/ \E which \in {"on_message", "on_error", "on_raw_line"} : TwinSetObserver(which)
  \/ \E chunk \in TwinChunks : TwinProcess(chunk)
  \/ TwinFlush
  \/ TwinReset

(***************************************************************************)
(* A JsonInputStream: built by new or from_messages, then add, add_prompt, *)
(* add_system_message, add_config, clear and to_string in any order.       *)
(***************************************************************************)
\* Bound: the messages buffered before a further add.
MaxMessages == 3

InCall(op, arg) == [op |-> op, arg |-> arg]

\* The messages passed to add, the contents of prompts and system messages,
\* the Values passed to add_config and the vectors passed to from_messages.
InputValues == {JNull, JNum(1), JObj(<< << << "n" >>, JNull >> >>)}
InputContents == {<< "a" >>, << NL >>}
InputConfigs == {JNull, JObj(<< << << "n" >>, JNum(1) >> >>), JObj(<< << TYPE, JStr(<< "a" >>) >> >>)}
InputVectors == {<< JObj(<< >>) >>, << JNull >>, << JNum(1), JNull >>}

\* JsonInputStream::new(compact)
InputNew(compact) ==
  /\ in_call.op = "init"
  /\ ins' = NewInput(compact)
  /\ in_call' = InCall("new", JNull)
  /\ in_ret' = << >>
  /\ UNCHANGED notInput

\* JsonInputStream::from_messages(messages, compact)
InputFromMessages(messages, compact) ==
  /\ in_call.op = "init"
  /\ ins' = from_messages(messages, compact)
  /\ in_call' = InCall("from_messages", JArr(messages))
  /\ in_ret' = << >>
  /\ UNCHANGED notInput

\* stream.add(message)
InputAdd(message) ==
  /\ in_call.op # "init"
  /\ size(ins) < MaxMessages
  /\ ins' = add(ins, message)
  /\ in_call' = InCall("add", message)
  /\ in_ret' = << >>
  /\ UNCHANGED notInput

\* stream.add_prompt(content)
InputAddPrompt(content) ==
  /\ in_call.op # "init"
  /\ size(ins) < MaxMessages
  /\ ins' = add_prompt(ins, content)
  /\ in_call' = InCall("add_prompt", JStr(content))
  /\ in_ret' = << >>
  /\ UNCHANGED notInput

\* stream.add_system_message(content)
InputAddSystemMessage(content) ==
  /\ in_call.op # "init"
  /\ size(ins) < MaxMessages
  /\ ins' = add_system_message(ins, content)
  /\ in_call' = InCall("add_system_message", JStr(content))
  /\ in_ret' = << >>
  /\ UNCHANGED notInput

\* stream.add_config(value)
InputAddConfig(value) ==
  /\ in_call.op # "init"
  /\ size(ins) < MaxMessages
  /\ ins' = add_config(ins, value)
  /\ in_call' = InCall("add_config", value)
  /\ in_ret' = << >>
  /\ UNCHANGED notInput

\* stream.clear()
InputClear ==
  /\ in_call.op # "init"
  /\ ins' = clear(ins)
  /\ in_call' = InCall("clear", JNull)
  /\ in_ret' = << >>
  /\ UNCHANGED notInput

\* stream.to_string()
InputToString ==
  /\ in_call.op # "init"
  /\ in_ret' = JsonInputStream_to_string(ins)
  /\ in_call' = InCall("to_string", JNull)
  /\ UNCHANGED ins
  /\ UNCHANGED notInput

InputNext ==
  \/ \E compact \in BOOLEAN : InputNew(compact)
  \/ \E messages \in InputVectors, compact \in BOOLEAN : InputFromMessages(messages, compact)
  \/ \E message \in InputValues : InputAdd(message)
  \/ \E content \in InputContents : InputAddPrompt(content)
  \/ \E content \in InputContents : InputAddSystemMessage(content)
  \/ \E value \in InputConfigs : InputAddConfig(value)
  \/ InputClear
  \/ InputToString

(***************************************************************************)
(* Signal handlers: setup_signal_handler is called, the functions it       *)
(* returned are called, the polling threads run, and interrupt signals     *)
(* arrive from outside.  The code registers nothing with the operating     *)
(* system, so what an interrupt does is the host's choice: the default     *)
(* disposition ends the process, a handler installed elsewhere lets it run *)
(* on.                                                                     *)
(***************************************************************************)
\* Bounds: the setup_signal_handler calls and the interrupts delivered.
MaxHandlers == 2
MaxInterrupts == 2

\* let remove = setup_signal_handler(cleanup_fn)
SignalSetup ==
  /\ sg_alive
  /\ Len(sg_handlers) < MaxHandlers
  /\ sg_handlers' = Append(sg_handlers, setup_signal_handler)
  /\ UNCHANGED << sg_alive, sg_interrupts >>
  /\ UNCHANGED notSignal

\* remove() for the i-th handler
SignalRemove(i) ==
  /\ sg_alive
  /\ sg_handlers' = [sg_handlers EXCEPT ![i] = remove_handler(@)]
  /\ UNCHANGED << sg_alive, sg_interrupts >>
  /\ UNCHANGED notSignal

\* The polling thread of the i-th handler takes its next step.
SignalThread(i) ==
  /\ sg_alive
  /\ sg_handlers[i].pc # "done"
  /\ sg_handlers' = [sg_handlers EXCEPT ![i] = thread_step(@)]
  /\ UNCHANGED << sg_alive, sg_interrupts >>
  /\ UNCHANGED notSignal

\* An interrupt signal is delivered to the process.
SignalInterrupt(terminates) ==
  /\ sg_alive
  /\ sg_interrupts < MaxInterrupts
  /\ sg_interrupts' = sg_interrupts + 1
  /\ sg_alive' = ~terminates
  /\ UNCHANGED sg_handlers
  /\ UNCHANGED notSignal

SignalNext ==
  \/ SignalSetup
  \/ \E i \in DOMAIN sg_handlers : SignalRemove(i)
  \/ \E i \in DOMAIN sg_handlers : SignalThread(i)
  \/ \E terminates \in BOOLEAN : SignalInterrupt(terminates)

(***************************************************************************)
(* Specifications.  Each one exercises one component from its state after  *)
(* construction; the other components stay idle.                           *)
(***************************************************************************)
\* JsonOutputStream::new(), then process/flush/reset in any order.
StreamInit ==
  /\ os = NewStream
  /\ os_call = "new"
  /\ os_ret = << >>
  /\ os_fed = << >>
  /\ os_mode = "fed"
  /\ os_split = FALSE
  /\ cv = JNull
  /\ c_pc = "idle"
  /\ c_compact = TRUE
  /\ c_line = << >>
  /\ c_parsed = None
  /\ config = [tool |-> "", working_directory |-> "", isolation |-> "",
               screen_name |-> None, container_name |-> None, json |-> FALSE]
  /\ agent = None
  /\ a_call = ACall("idle", FALSE, FALSE)
  /\ a_ret = Ok(DefaultResult)
  /\ a_calls = 0
  /\ spawned = << >>
  /\ waited = 0
  /\ a_started = FALSE
  /\ a_child = None
  /\ handle = None
  /\ h_codes = << >>
  /\ tw_obs = NewStream
  /\ tw_ref = NewStream
  /\ tw_call = "idle"
  /\ tw_ret = << >>
  /\ tw_ref_ret = << >>
  /\ tw_calls = << >>
  /\ tw_n = 0
  /\ tw_dropped = None
  /\ d_api = "execute_command"
  /\ d_pc = "done"
  /\ d_prog = << >>
  /\ child_st = "reaped"
  /\ pipe_out = 0
  /\ pipe_err = 0
  /\ d_stdout = 0
  /\ d_stderr = 0
  /\ p_text = << >>
  /\ p_pc = "idle"
  /\ p_result = << >>
  /\ ins = NewInput(TRUE)
  /\ in_call = InCall("idle", JNull)
  /\ in_ret = << >>
  /\ sg_handlers = << >>
  /\ sg_alive = FALSE
  /\ sg_interrupts = 0
  /\ p_msgs = << >>

SpecStream == StreamInit /\ [][StreamNext]_vars

\* A Value, then stringify_ndjson_line and parse_ndjson_line.
CodecInit ==
  /\ cv \in CodecLeaves
  /\ c_pc = "value"
  /\ c_compact = TRUE
  /\ c_line = << >>
  /\ c_parsed = None
  /\ os = NewStream
  /\ os_call = "idle"
  /\ os_ret = << >>
  /\ os_fed = << >>
  /\ os_mode = "fed"
  /\ os_split = FALSE
  /\ config = [tool |-> "", working_directory |-> "", isolation |-> "",
               screen_name |-> None, container_name |-> None, json |-> FALSE]
  /\ agent = None
  /\ a_call = ACall("idle", FALSE, FALSE)
  /\ a_ret = Ok(DefaultResult)
  /\ a_calls = 0
  /\ spawned = << >>
  /\ waited = 0
  /\ a_started = FALSE
  /\ a_child = None
  /\ handle = None
  /\ h_codes = << >>
  /\ tw_obs = NewStream
  /\ tw_ref = NewStream
  /\ tw_call = "idle"
  /\ tw_ret = << >>
  /\ tw_ref_ret = << >>
  /\ tw_calls = << >>
  /\ tw_n = 0
  /\ tw_dropped = None
  /\ d_api = "execute_command"
  /\ d_pc = "done"
  /\ d_prog = << >>
  /\ child_st = "reaped"
  /\ pipe_out = 0
  /\ pipe_err = 0
  /\ d_stdout = 0
  /\ d_stderr = 0
  /\ p_text = << >>
  /\ p_pc = "idle"
  /\ p_result = << >>
  /\ ins = NewInput(TRUE)
  /\ in_call = InCall("idle", JNull)
  /\ in_ret = << >>
  /\ sg_handlers = << >>
  /\ sg_alive = FALSE
  /\ sg_interrupts = 0
  /\ p_msgs = << >>

SpecCodec == CodecInit /\ [][CodecNext]_vars

\* No controller yet: Agent::new comes first.
Init ==
  /\ config = [tool |-> "", working_directory |-> "", isolation |-> "",
               screen_name |-> None, container_name |-> None, json |-> FALSE]
  /\ agent = None
  /\ a_call = ACall("init", FALSE, FALSE)
  /\ a_ret = Ok(DefaultResult)
  /\ a_calls = 0
  /\ spawned = << >>
  /\ waited = 0
  /\ a_started = FALSE
  /\ a_child = None
  /\ handle = None
  /\ h_codes = << >>
  /\ tw_obs = NewStream
  /\ tw_ref = NewStream
  /\ tw_call = "idle"
  /\ tw_ret = << >>
  /\ tw_ref_ret = << >>
  /\ tw_calls = << >>
  /\ tw_n = 0
  /\ tw_dropped = None
  /\ os = NewStream
  /\ os_call = "idle"
  /\ os_ret = << >>
  /\ os_fed = << >>
  /\ os_mode = "fed"
  /\ os_split = FALSE
  /\ cv = JNull
  /\ c_pc = "idle"
  /\ c_compact = TRUE
  /\ c_line = << >>
  /\ c_parsed = None
  /\ d_api = "execute_command"
  /\ d_pc = "done"
  /\ d_prog = << >>
  /\ child_st = "reaped"
  /\ pipe_out = 0
  /\ pipe_err = 0
  /\ d_stdout = 0
  /\ d_stderr = 0
  /\ p_text = << >>
  /\ p_pc = "idle"
  /\ p_result = << >>
  /\ ins = NewInput(TRUE)
  /\ in_call = InCall("idle", JNull)
  /\ in_ret = << >>
  /\ sg_handlers = << >>
  /\ sg_alive = FALSE
  /\ sg_interrupts = 0
  /\ p_msgs = << >>

Spec == Init /\ [][Next]_vars

\* The child has just been spawned by execute_command or by start_command.
DrainInit ==
  /\ d_api \in {"execute_command", "wait_for_exit"}
  /\ d_pc = (IF d_api = "execute_command" THEN "stdout" ELSE "started")
  /\ d_prog \in Programs(MaxWrites)
  /\ child_st = "running"
  /\ pipe_out = 0
  /\ pipe_err = 0
  /\ d_stdout = 0
  /\ d_stderr = 0
  /\ p_text = << >>
  /\ p_pc = "idle"
  /\ p_result = << >>
  /\ config = [tool |-> "", working_directory |-> "", isolation |-> "",
               screen_name |-> None, container_name |-> None, json |-> FALSE]
  /\ agent = None
  /\ a_call = ACall("idle", FALSE, FALSE)
  /\ a_ret = Ok(DefaultResult)
  /\ a_calls = 0
  /\ spawned = << >>
  /\ waited = 0
  /\ a_started = FALSE
  /\ a_child = None
  /\ handle = None
  /\ h_codes = << >>
  /\ tw_obs = NewStream
  /\ tw_ref = NewStream
  /\ tw_call = "idle"
  /\ tw_ret = << >>
  /\ tw_ref_ret = << >>
  /\ tw_calls = << >>
  /\ tw_n = 0
  /\ tw_dropped = None
  /\ os = NewStream
  /\ os_call = "idle"
  /\ os_ret = << >>
  /\ os_fed = << >>
  /\ os_mode = "fed"
  /\ os_split = FALSE
  /\ cv = JNull
  /\ c_pc = "idle"
  /\ c_compact = TRUE
  /\ c_line = << >>
  /\ c_parsed = None
  /\ ins = NewInput(TRUE)
  /\ in_call = InCall("idle", JNull)
  /\ in_ret = << >>
  /\ sg_handlers = << >>
  /\ sg_alive = FALSE
  /\ sg_interrupts = 0
  /\ p_msgs = << >>

SpecDrain == DrainInit /\ [][DrainNext]_vars

\* The empty text, nothing parsed yet.
ParseInit ==
  /\ p_text = << >>
  /\ p_pc = "text"
  /\ p_result = << >>
  /\ config = [tool |-> "", working_directory |-> "", isolation |-> "",
               screen_name |-> None, container_name |-> None, json |-> FALSE]
  /\ agent = None
  /\ a_call = ACall("idle", FALSE, FALSE)
  /\ a_ret = Ok(DefaultResult)
  /\ a_calls = 0
  /\ spawned = << >>
  /\ waited = 0
  /\ a_started = FALSE
  /\ a_child = None
  /\ handle = None
  /\ h_codes = << >>
  /\ tw_obs = NewStream
  /\ tw_ref = NewStream
  /\ tw_call = "idle"
  /\ tw_ret = << >>
  /\ tw_ref_ret = << >>
  /\ tw_calls = << >>
  /\ tw_n = 0
  /\ tw_dropped = None
  /\ d_api = "execute_command"
  /\ d_pc = "done"
  /\ d_prog = << >>
  /\ child_st = "reaped"
  /\ pipe_out = 0
  /\ pipe_err = 0
  /\ d_stdout = 0
  /\ d_stderr = 0
  /\ os = NewStream
  /\ os_call = "idle"
  /\ os_ret = << >>
  /\ os_fed = << >>
  /\ os_mode = "fed"
  /\ os_split = FALSE
  /\ cv = JNull
  /\ c_pc = "idle"
  /\ c_compact = TRUE
  /\ c_line = << >>
  /\ c_parsed = None
  /\ ins = NewInput(TRUE)
  /\ in_call = InCall("idle", JNull)
  /\ in_ret = << >>
  /\ sg_handlers = << >>
  /\ sg_alive = FALSE
  /\ sg_interrupts = 0
  /\ p_msgs = << >>

SpecParse == ParseInit /\ [][ParseNext]_vars

\* Both streams just created.
TwinInit ==
  /\ p_text = << >>
  /\ p_pc = "idle"
  /\ p_result = << >>
  /\ config = [tool |-> "", working_directory |-> "", isolation |-> "",
               screen_name |-> None, container_name |-> None, json |-> FALSE]
  /\ agent = None
  /\ a_call = ACall("idle", FALSE, FALSE)
  /\ a_ret = Ok(DefaultResult)
  /\ a_calls = 0
  /\ spawned = << >>
  /\ waited = 0
  /\ a_started = FALSE
  /\ a_child = None
  /\ handle = None
  /\ h_codes = << >>
  /\ tw_obs = NewStream
  /\ tw_ref = NewStream
  /\ tw_call = "new"
  /\ tw_ret = << >>
  /\ tw_ref_ret = << >>
  /\ tw_calls = << >>
  /\ tw_n = 0
  /\ tw_dropped = None
  /\ d_api = "execute_command"
  /\ d_pc = "done"
  /\ d_prog = << >>
  /\ child_st = "reaped"
  /\ pipe_out = 0
  /\ pipe_err = 0
  /\ d_stdout = 0
  /\ d_stderr = 0
  /\ os = NewStream
  /\ os_call = "idle"
  /\ os_ret = << >>
  /\ os_fed = << >>
  /\ os_mode = "fed"
  /\ os_split = FALSE
  /\ cv = JNull
  /\ c_pc = "idle"
  /\ c_compact = TRUE
  /\ c_line = << >>
  /\ c_parsed = None
  /\ ins = NewInput(TRUE)
  /\ in_call = InCall("idle", JNull)
  /\ in_ret = << >>
  /\ sg_handlers = << >>
  /\ sg_alive = FALSE
  /\ sg_interrupts = 0
  /\ p_msgs = << >>

SpecTwin == TwinInit /\ [][TwinNext]_vars

\* No stream yet: new or from_messages comes first.
InputInit ==
  /\ p_text = << >>
  /\ p_pc = "idle"
  /\ p_result = << >>
  /\ config = [tool |-> "", working_directory |-> "", isolation |-> "",
               screen_name |-> None, container_name |-> None, json |-> FALSE]
  /\ agent = None
  /\ a_call = ACall("idle", FALSE, FALSE)
  /\ a_ret = Ok(DefaultResult)
  /\ a_calls = 0
  /\ spawned = << >>
  /\ waited = 0
  /\ a_started = FALSE
  /\ a_child = None
  /\ handle = None
  /\ h_codes = << >>
  /\ tw_obs = NewStream
  /\ tw_ref = NewStream
  /\ tw_call = "idle"
  /\ tw_ret = << >>
  /\ tw_ref_ret = << >>
  /\ tw_calls = << >>
  /\ tw_n = 0
  /\ tw_dropped = None
  /\ d_api = "execute_command"
  /\ d_pc = "done"
  /\ d_prog = << >>
  /\ child_st = "reaped"
  /\ pipe_out = 0
  /\ pipe_err = 0
  /\ d_stdout = 0
  /\ d_stderr = 0
  /\ os = NewStream
  /\ os_call = "idle"
  /\ os_ret = << >>
  /\ os_fed = << >>
  /\ os_mode = "fed"
  /\ os_split = FALSE
  /\ cv = JNull
  /\ c_pc = "idle"
  /\ c_compact = TRUE
  /\ c_line = << >>
  /\ c_parsed = None
  /\ ins = NewInput(TRUE)
  /\ in_call = InCall("init", JNull)
  /\ in_ret = << >>
  /\ sg_handlers = << >>
  /\ sg_alive = FALSE
  /\ sg_interrupts = 0
  /\ p_msgs = << >>

SpecInput == InputInit /\ [][InputNext]_vars

\* A running process that has set up no handler.
SignalInit ==
  /\ p_text = << >>
  /\ p_pc = "idle"
  /\ p_result = << >>
  /\ config = [tool |-> "", working_directory |-> "", isolation |-> "",
               screen_name |-> None, container_name |-> None, json |-> FALSE]
  /\ agent = None
  /\ a_call = ACall("idle", FALSE, FALSE)
  /\ a_ret = Ok(DefaultResult)
  /\ a_calls = 0
  /\ spawned = << >>
  /\ waited = 0
  /\ a_started = FALSE
  /\ a_child = None
  /\ handle = None
  /\ h_codes = << >>
  /\ tw_obs = NewStream
  /\ tw_ref = NewStream
  /\ tw_call = "idle"
  /\ tw_ret = << >>
  /\ tw_ref_ret = << >>
  /\ tw_calls = << >>
  /\ tw_n = 0
  /\ tw_dropped = None
  /\ d_api = "execute_command"
  /\ d_pc = "done"
  /\ d_prog = << >>
  /\ child_st = "reaped"
  /\ pipe_out = 0
  /\ pipe_err = 0
  /\ d_stdout = 0
  /\ d_stderr = 0
  /\ os = NewStream
  /\ os_call = "idle"
  /\ os_ret = << >>
  /\ os_fed = << >>
  /\ os_mode = "fed"
  /\ os_split = FALSE
  /\ cv = JNull
  /\ c_pc = "idle"
  /\ c_compact = TRUE
  /\ c_line = << >>
  /\ c_parsed = None
  /\ ins = NewInput(TRUE)
  /\ in_call = InCall("idle", JNull)
  /\ in_ret = << >>
  /\ sg_handlers = << >>
  /\ sg_alive = TRUE
  /\ sg_interrupts = 0
  /\ p_msgs = << >>

SpecSignal == SignalInit /\ [][SignalNext]_vars


(***************************************************************************)
(* Properties of JsonOutputStream.                                         *)
(***************************************************************************)
Range(f) == {f[i] : i \in DOMAIN f}

\* The chunk a process() step passed: what the step added to os_fed.
StepChunk == SubSeq(os_fed', Len(os_fed) + 1, Len(os_fed'))

\* C1: chunk-boundary invariance.  Whatever chunks the text was fed in,
\* process() on the chunks in order and then flush() leaves the same
\* get_messages() as process() once on the whole text and then flush().
C1_ChunkBoundaryInvariance ==
  os_mode = "flushed" =>
    os.messages = Flush(Process(NewStream, os_fed).st).st.messages

\* C1 witness: the message {} fed as the chunks "{" and "}", recovered by flush.
C1_Witness ==
  /\ os_mode = "flushed"
  /\ os_split
  /\ os_fed = << "{", "}" >>
  /\ os.messages = << JObj(<< >>) >>

\* C7: a chunk without a newline completes no line: process() returns no
\* message and changes only the pending buffer, which grows by the chunk; a
\* later chunk that ends the line returns exactly the message of the joined
\* pieces.
C7_NoNewlineNoLine ==
  [][os_call' = "process" =>
       /\ NL \notin Range(StepChunk) =>
            /\ os_ret' = << >>
            /\ os'.messages = os.messages
            /\ os'.errors = os.errors
            /\ os'.line_count = os.line_count
            /\ os'.buffer = os.buffer \o StepChunk
       /\ \A n \in 1..MaxFed :
            /\ Len(StepChunk) = n
            /\ StepChunk[n] = NL
            /\ NL \notin Range(SubSeq(StepChunk, 1, n - 1))
            /\ parse_ndjson_line(os.buffer \o SubSeq(StepChunk, 1, n - 1)) # None
            => os_ret' = parse_ndjson_line(os.buffer \o SubSeq(StepChunk, 1, n - 1))
     ]_vars

\* C7 witness: "{" was pending and the chunk "}\n" completed the message {}.
C7_Witness ==
  /\ os_call = "process"
  /\ os_split
  /\ os_fed = << "{", "}", NL >>
  /\ os_ret = << JObj(<< >>) >>
  /\ os.buffer = << >>

\* The positions of the newlines of a text, and the line each one ends.
NewlinePositions(text) == {i \in 1..Len(text) : text[i] = NL}

LineEndingAt(text, i) ==
  SubSeq(text, SetMax({j \in NewlinePositions(text) : j < i} \cup {0}) + 1, i - 1)

\* The text after the last newline.
Remainder(text) ==
  SubSeq(text, SetMax(NewlinePositions(text) \cup {0}) + 1, Len(text))

\* The lines completed so far: one per newline fed, in order, and after a
\* flush the remainder when it is not blank.
CompletedLines(text, mode) ==
  LET P == NewlinePositions(text)
      nth(k) == CHOOSE i \in P : Cardinality({j \in P : j <= i}) = k
      byNewline == [k \in 1..Cardinality(P) |-> LineEndingAt(text, nth(k))]
  IN  IF mode = "flushed" /\ Trim(Remainder(text)) # << >>
      THEN Append(byNewline, Remainder(text))
      ELSE byNewline

\* The outcome the classification rule gives a line.
Outcome(line) ==
  LET trimmed == Trim(line)
  IN  IF trimmed # << >> /\ trimmed[1] \in {"{", "["} /\ from_str(trimmed) # None
      THEN "message"
      ELSE IF trimmed # << >> /\ trimmed[1] = "{" THEN "error"
      ELSE "nothing"

RECURSIVE ExpectedMessages(_)
ExpectedMessages(lines) ==
  IF lines = << >> THEN << >>
  ELSE (IF Outcome(lines[1]) = "message" THEN from_str(Trim(lines[1])) ELSE << >>)
       \o ExpectedMessages(Tail(lines))

RECURSIVE ExpectedErrors(_, _)
ExpectedErrors(lines, n) ==
  IF lines = << >> THEN << >>
  ELSE (IF Outcome(lines[1]) = "error" THEN << ParseError(lines[1], n) >> ELSE << >>)
       \o ExpectedErrors(Tail(lines), n + 1)

\* C8: line classification.  Every completed line (by process or by flush)
\* yields exactly one outcome: a message when the trimmed line starts with
\* { or [ and parses; a ParseError when it starts with { and does not parse;
\* nothing otherwise.
C8_LineClassification ==
  os_mode \in {"fed", "flushed"} =>
    LET lines == CompletedLines(os_fed, os_mode)
    IN  /\ os.messages = ExpectedMessages(lines)
        /\ os.errors = ExpectedErrors(lines, 1)
        /\ os.line_count = Len(lines)

\* C8 witness: one line of each kind of outcome has been completed: an array
\* message, a malformed object and a bare scalar are all reachable; here a
\* malformed "[" line and a malformed "{" line, the first silent, the second
\* an error numbered 2.
C8_Witness ==
  /\ os_mode = "fed"
  /\ os_fed = << "[", NL, "{", NL >>
  /\ os.errors = << ParseError(<< "{" >>, 2) >>
  /\ os.messages = << >>

\* C9: flush() on a blank pending buffer returns nothing and changes
\* nothing; otherwise it treats the buffer as one final line, classified as
\* process() classifies a line, and empties the buffer.  A second
\* consecutive flush() is a no-op.
C9_FlushFinalLine ==
  [][os_call' = "flush" =>
       /\ IF Trim(os.buffer) = << >>
          THEN os' = os /\ os_ret' = << >>
          ELSE /\ os' = Process(os, << NL >>).st
               /\ os_ret' = Process(os, << NL >>).ret
               /\ os'.buffer = << >>
               /\ os'.line_count = os.line_count + 1
       /\ os_call = "flush" => (os' = os /\ os_ret' = << >>)
     ]_vars

\* C9 witness: a flush that took the pending text "[]" as the final line.
C9_Witness ==
  /\ os_call = "flush"
  /\ os_fed = << "[", "]" >>
  /\ os_ret = << JArr(<< >>) >>
  /\ os.buffer = << >>
  /\ os.line_count = 1

\* The outcomes of parsing on tw_obs are those on the reference stream.
SameOutcomes(obs, ref, obs_ret, ref_ret) ==
  /\ obs.messages = ref.messages
  /\ obs.errors = ref.errors
  /\ obs.line_count = ref.line_count
  /\ obs.buffer = ref.buffer
  /\ obs_ret = ref_ret

\* C19: whatever observers are registered, and whenever, a sequence of
\* process() and flush() calls returns the same messages and leaves the same
\* get_messages(), get_errors() and line counter as on a stream without
\* observers.
C19_ObserversChangeNothing ==
  tw_dropped = None => SameOutcomes(tw_obs, tw_ref, tw_ret, tw_ref_ret)

\* C19 witness: with on_raw_line and on_message registered, the line {} fed
\* in two chunks was reported to both callbacks and returned.
C19_Witness ==
  /\ tw_dropped = None
  /\ tw_obs.on_raw_line
  /\ tw_obs.on_message
  /\ tw_call = "process"
  /\ tw_calls = << RawLineCall(<< "{", "}" >>, 1), MessageCall(JObj(<< >>), 1) >>
  /\ tw_ret = << JObj(<< >>) >>

\* C20: reset() leaves the pending buffer, the messages and the errors empty
\* and the line counter 0, and from then on every process() and flush()
\* call gives what it gives on a stream created at the time of the reset,
\* whatever was fed before.
C20_ResetClears ==
  [][/\ tw_call' = "reset" =>
          /\ tw_obs'.buffer = << >>
          /\ tw_obs'.messages = << >>
          /\ tw_obs'.errors = << >>
          /\ tw_obs'.line_count = 0
     /\ tw_dropped' # None => SameOutcomes(tw_obs', tw_ref', tw_ret', tw_ref_ret')
     ]_vars

\* C20 witness: a reset discarded the partial line "{"; the message {} fed
\* afterwards is line 1 and the only message.
C20_Witness ==
  /\ tw_dropped = Some(<< "{" >>)
  /\ tw_call = "process"
  /\ tw_obs.messages = << JObj(<< >>) >>
  /\ tw_obs.line_count = 1
  /\ tw_obs.errors = << >>

\* C11: parse_ndjson returns, in input order, exactly the values of the
\* lines that parse as an object or an array; blank lines and lines that
\* are not JSON are skipped and change nothing about the other lines.
C11_ParseAllOrder ==
  p_pc = "parsed" =>
    p_result = ExpectedMessages(CompletedLines(p_text, "flushed"))

\* C11 witness: two messages around a blank line, the second without a
\* final newline.
C11_Witness ==
  /\ p_pc = "parsed"
  /\ p_text = << "{", "}", NL, NL, "[", "]" >>
  /\ p_result = << JObj(<< >>), JArr(<< >>) >>

(***************************************************************************)
(* Properties of the NDJSON codec.                                         *)
(***************************************************************************)
\* C10: round trip.  For an object or an array, parse_ndjson_line of
\* stringify_ndjson_line returns the value, compact or pretty; null is
\* rendered as the empty text, and every other value as a text that ends
\* with exactly one newline.
C10_RoundTrip ==
  /\ (c_pc = "parsed" /\ cv.t \in {"arr", "obj"}) => c_parsed = Some(cv)
  /\ (c_pc \in {"line", "parsed"} /\ cv.t = "null") => c_line = << >>
  /\ (c_pc \in {"line", "parsed"} /\ cv.t # "null") =>
       /\ Len(c_line) >= 2
       /\ c_line[Len(c_line)] = NL
       /\ c_line[Len(c_line) - 1] # NL

\* C10 witness: {"a": ["\"\\\n"]} printed pretty (over several lines, with
\* escapes) and parsed back.
C10_Witness ==
  /\ c_pc = "parsed"
  /\ ~c_compact
  /\ cv = JObj(<< << << "a" >>, JArr(<< JStr(<< QUOTE, BSLASH, NL >>) >>) >> >>)
  /\ Cardinality(NewlinePositions(c_line)) > 1
  /\ c_parsed = Some(cv)

(***************************************************************************)
(* The controller.                                                         *)
(***************************************************************************)
\* The required field config leaves out, as Agent::new's contract lists them.
MissingFields ==
  {f \in {"tool", "working_directory", "screen_name", "container_name"} :
     \/ f = "tool" /\ config.tool = ""
     \/ f = "working_directory" /\ config.working_directory = ""
     \/ f = "screen_name" /\ config.isolation = "screen" /\ config.screen_name = None
     \/ f = "container_name" /\ config.isolation = "docker" /\ config.container_name = None}

\* The field an error text of Agent::new starts with.
NamedField(err) ==
  CASE err = "tool is required" -> "tool"
    [] err = "working_directory is required" -> "working_directory"
    [] err = "screen_name is required for screen isolation" -> "screen_name"
    [] err = "container_name is required for docker isolation" -> "container_name"
    [] OTHER -> "?"

\* C5: Agent::new fails, leaving no controller, exactly when the tool is
\* empty, the working directory is empty, isolation is "screen" without a
\* screen_name or isolation is "docker" without a container_name; the error
\* names a field that is missing; every other configuration is accepted.
C5_NewValidation ==
  a_call.op = "new" =>
    /\ ~a_ret.ok <=> MissingFields # {}
    /\ agent = None <=> MissingFields # {}
    /\ ~a_ret.ok => NamedField(a_ret.err) \in MissingFields
    /\ a_ret.ok => agent = Some(NewAgent(config))
    /\ spawned = << >>

C5_Witness ==
  /\ a_call.op = "new"
  /\ config.tool = "claude"
  /\ config.working_directory = "/w"
  /\ config.isolation = "screen"
  /\ config.screen_name = None
  /\ ~a_ret.ok
  /\ a_ret.err = "screen_name is required for screen isolation"
  /\ agent = None

\* The step is a call of op.
CallStep(op) == a_calls' = a_calls + 1 /\ a_call'.op = op

\* C4: a start with dry_run returns Ok, spawns nothing and leaves the
\* process handle as it was, whatever the isolation mode, detached and
\* attached are; execute_command with dry_run spawns nothing and returns
\* exit code 0, empty stdout and stderr and the command it was given.
C4_DryRunNeverSpawns ==
  [][/\ (CallStep("start") /\ a_call'.dry_run) =>
          /\ a_ret'.ok
          /\ spawned' = spawned
          /\ waited' = waited
          /\ agent'[1].process_handle = agent[1].process_handle
     /\ (CallStep("execute_command") /\ a_call'.dry_run) =>
          /\ a_ret' = Ok(ExecutionResult(0, << >>, << >>, << "true" >>))
          /\ spawned' = spawned
          /\ waited' = waited]_vars

C4_Witness ==
  /\ a_call.op = "start"
  /\ a_call.dry_run
  /\ ~a_call.detached
  /\ config.isolation = "docker"
  /\ a_calls = 1
  /\ a_ret.ok
  /\ spawned = << >>
  /\ agent[1].process_handle = None

\* C2: in isolation-free mode a stop that follows a successful stop fails
\* with "Agent not started or already stopped" and neither spawns nor awaits
\* a process again.
C2_StopSingleUse ==
  [][(/\ a_call.op = "stop"
      /\ a_ret.ok
      /\ config.isolation \in {"", "none"}
      /\ CallStep("stop")) =>
        /\ ~a_ret'.ok
        /\ a_ret'.err = "Agent not started or already stopped"
        /\ spawned' = spawned
        /\ waited' = waited]_vars

\* C6: with an isolation value other than none, empty, screen or docker, no
\* sequence of Agent::new, start and stop calls spawns a subprocess.
C6_InvalidIsolationNeverSpawns ==
  config.isolation \notin {"", "none", "screen", "docker"} => spawned = << >>

StopCommandOf(options) ==
  IF options.isolation = "screen"
  THEN << "screen -S", options.screen_name[1], "-X quit" >>
  ELSE << "docker stop", options.container_name[1], "&& docker rm",
          options.container_name[1] >>

\* The exit code reported for an exit status.
ReportedCode(status) == IF status = None THEN 1 ELSE status[1]

\* C13: with isolation screen or docker, a stop that is not a dry run runs
\* the stop command for the configured name whatever the controller has
\* done before; when it returns Ok the result is that command's exit code
\* and stdout, with no parsed output and no session id; it fails only when
\* the command cannot be spawned or read.
C13_IsolatedStopRunsCommand ==
  [][(/\ CallStep("stop")
      /\ config.isolation \in {"screen", "docker"}
      /\ ~a_call'.dry_run) =>
        /\ agent' = agent
        /\ a_ret'.ok =>
             /\ spawned' = Append(spawned, StopCommandOf(config))
             /\ waited' = waited + 1
             /\ a_child' # None
             /\ a_ret'.val = AgentResult(ReportedCode(a_child'[1].status),
                                         ReadLines(a_child'[1].out), None, None)
        /\ ~a_ret'.ok =>
             /\ a_ret'.err \in {"spawn", "io"}
             /\ a_ret'.err = "io" => spawned' = Append(spawned, StopCommandOf(config))
             /\ a_ret'.err = "spawn" => spawned' = spawned
     ]_vars

\* C13 witness: stop as the first call on a screen controller ran the quit
\* command for session "s", which exited with code 2.
C13_Witness ==
  /\ a_call.op = "stop"
  /\ ~a_call.dry_run
  /\ a_calls = 1
  /\ config.isolation = "screen"
  /\ a_ret.ok
  /\ a_ret.val.exit_code = 2
  /\ spawned = << << "screen -S", "s", "-X quit" >> >>

\* C14: in isolation-free mode, stop on a controller for which no start
\* that was neither detached nor a dry run has succeeded fails with "Agent
\* not started or already stopped", waits for nothing, spawns nothing and
\* leaves the controller as it was.
C14_StopWithoutHandleFails ==
  [][(/\ CallStep("stop")
      /\ config.isolation \in {"", "none"}
      /\ ~a_started) =>
        /\ ~a_ret'.ok
        /\ a_ret'.err = "Agent not started or already stopped"
        /\ waited' = waited
        /\ spawned' = spawned
        /\ agent' = agent
     ]_vars

\* C14 witness: stop failed as the third call; the only spawn before it was
\* that of a detached start.
C14_Witness ==
  /\ a_call.op = "stop"
  /\ a_calls = 3
  /\ config.isolation = "none"
  /\ ~a_started
  /\ Len(spawned) = 1
  /\ ~a_ret.ok
  /\ a_ret.err = "Agent not started or already stopped"

\* C15: after a detached start has returned Ok the controller holds no
\* handle, whatever calls came before: a stop that follows in
\* isolation-free mode fails with the not-started error and waits for no
\* process.
C15_DetachedStartHoldsNoHandle ==
  [][(/\ a_call.op = "start"
      /\ a_call.detached
      /\ ~a_call.dry_run
      /\ a_ret.ok
      /\ config.isolation \in {"", "none"}
      /\ CallStep("stop")) =>
        /\ agent[1].process_handle = None
        /\ ~a_ret'.ok
        /\ a_ret'.err = "Agent not started or already stopped"
        /\ waited' = waited
     ]_vars

\* C16: a successful isolation-free stop returns the session id the tool's
\* own extract_session_id finds in the output, for each of claude, codex,
\* opencode, agent and gemini, and no session id for any other tool.
C16_SessionIdPerTool ==
  [][(/\ CallStep("stop")
      /\ config.isolation \in {"", "none"}
      /\ a_ret'.ok) =>
        a_ret'.val.session_id =
          IF config.tool \in {"claude", "codex", "opencode", "agent", "gemini"}
          THEN extract_session_id(config.tool, a_ret'.val.plain_output)
          ELSE None
     ]_vars

\* C17: a successful isolation-free stop returns as plain output the
\* accumulated stdout when the accumulated stderr is empty, and stdout, one
\* newline and stderr otherwise; its exit code is the one wait_for_exit
\* reports on the handle.
C17_PlainOutput ==
  [][(/\ CallStep("stop")
      /\ config.isolation \in {"", "none"}
      /\ a_ret'.ok) =>
        LET out == get_output(agent'[1].process_handle[1])
        IN  /\ a_ret'.val.plain_output =
                 IF out[2] = << >> THEN out[1] ELSE out[1] \o << NL >> \o out[2]
            /\ a_ret'.val.exit_code = wait_for_exit(agent[1].process_handle[1]).ret.val
            /\ a_ret'.val.exit_code = wait_for_exit(agent'[1].process_handle[1]).ret.val
     ]_vars

\* C17 witness: the child wrote "1" to stdout and "1" to stderr and was
\* killed: the plain output is both, a newline between them.
C17_Witness ==
  /\ a_call.op = "stop"
  /\ config.isolation = ""
  /\ a_ret.ok
  /\ a_ret.val.plain_output = << "1", NL, NL, "1", NL >>
  /\ a_ret.val.exit_code = 1

\* C18: execute_command and wait_for_exit report the exit code of the child
\* they waited for when it has one and 1 when it has none; a wait_for_exit
\* that waits for no child reports the cached code or 1, so 0 is never
\* reported for a child without a code.
C18_ExitCodeMapping ==
  [][/\ (CallStep("execute_command") /\ ~a_call'.dry_run /\ a_ret'.ok) =>
          /\ a_child' # None
          /\ a_ret'.val.exit_code = ReportedCode(a_child'[1].status)
     /\ (CallStep("wait_for_exit") /\ a_ret'.ok) =>
          a_ret'.val =
            IF waited' = waited + 1 THEN ReportedCode(handle[1].child[1].status)
            ELSE IF has_exited(handle[1]) THEN handle[1].exit_code[1]
            ELSE 1
     /\ (CallStep("stop") /\ config.isolation \in {"", "none"} /\ a_ret'.ok
           /\ waited' = waited + 1) =>
          a_ret'.val.exit_code =
            ReportedCode(agent[1].process_handle[1].child[1].status)
     ]_vars

\* C18 witness: wait_for_exit waited for a child that was killed by a
\* signal and reported 1.
C18_Witness ==
  /\ a_call.op = "wait_for_exit"
  /\ a_ret = Ok(1)
  /\ waited = 1
  /\ handle[1].exit_code = Some(1)
  /\ handle[1].stdout = << "1", NL >>

(***************************************************************************)
(* Draining.                                                               *)
(***************************************************************************)
\* C3: execute_command and wait_for_exit always return: as long as the call
\* has not returned, the child or the parent can take a step.
C3_DrainNeverDeadlocks ==
  d_pc # "done" => ENABLED DrainNext


(***************************************************************************)
(* Properties of JsonInputStream.                                          *)
(***************************************************************************)
\* The length of the lines of the first i messages.
RECURSIVE LineOffset(_, _)
LineOffset(s, i) ==
  IF i = 0 THEN 0
  ELSE LineOffset(s, i - 1) + Len(stringify_ndjson_line(s.messages[i], s.compact))

\* text is the lines of the messages of s, one after the other in buffer order.
IsConcatenation(text, s) ==
  /\ Len(text) = LineOffset(s, Len(s.messages))
  /\ \A i \in 1..Len(s.messages) :
       SubSeq(text, LineOffset(s, i - 1) + 1, LineOffset(s, i))
         = stringify_ndjson_line(s.messages[i], s.compact)

\* C21: add(null) leaves the buffered messages as they are; an add of a
\* non-null message appends that message at the end; add_prompt,
\* add_system_message and add_config append exactly one message at the end;
\* clear() empties the buffer; to_string() leaves the stream alone and returns
\* the lines stringify_ndjson_line yields for the buffered messages, in
\* insertion order.
C21_InputAccumulation ==
  [][/\ (in_call'.op = "add" /\ in_call'.arg.t = "null") => ins' = ins
     /\ (in_call'.op = "add" /\ in_call'.arg.t # "null")
          => ins' = [ins EXCEPT !.messages = Append(@, in_call'.arg)]
     /\ in_call'.op \in {"add_prompt", "add_system_message", "add_config"}
          => /\ ins'.compact = ins.compact
             /\ Len(ins'.messages) = Len(ins.messages) + 1
             /\ SubSeq(ins'.messages, 1, Len(ins.messages)) = ins.messages
     /\ in_call'.op = "clear" => ins' = [ins EXCEPT !.messages = << >>]
     /\ in_call'.op = "to_string" => ins' = ins /\ IsConcatenation(in_ret', ins)
    ]_vars

\* to_string() was called on a compact stream holding 1 and {"n":null} and
\* returned the two lines in that order.
C21_Witness ==
  /\ in_call.op = "to_string"
  /\ ins.compact
  /\ ins.messages = << JNum(1), JObj(<< << << "n" >>, JNull >> >>) >>
  /\ in_ret = << "1", NL, "{", QUOTE, "n", QUOTE, ":", "n", "u", "l", "l", "}", NL >>


(***************************************************************************)
(* Signal handlers.                                                        *)
(***************************************************************************)
\* C22: cleanup_fn is called only when the function setup_signal_handler
\* returned has not been called and an interrupt signal has been delivered.
C22_CleanupOnlyOnInterrupt ==
  [][\A i \in DOMAIN sg_handlers :
       sg_handlers'[i].cleanups > sg_handlers[i].cleanups
         => ~sg_handlers[i].removed /\ sg_interrupts > 0]_vars


(***************************************************************************)
(* The controller and its ProcessHandle.                                   *)
(***************************************************************************)
\* The controller holds a handle whose child has not been taken for joining.
HoldsUnjoined(ag) ==
  ag.process_handle # None /\ ag.process_handle[1].child # None

\* C23: a stop that is not a dry run and returns Ok leaves the controller
\* without an un-joined handle, in every isolation mode; and a start never
\* replaces a handle whose child has not been joined.
C23_HandleJoinedAtStop ==
  [][/\ (CallStep("stop") /\ ~a_call'.dry_run /\ a_ret'.ok)
          => ~HoldsUnjoined(agent'[1])
     /\ (CallStep("start") /\ HoldsUnjoined(agent[1]))
          => agent'[1].process_handle = agent[1].process_handle]_vars


(***************************************************************************)
(* Growth of the JsonOutputStream state.                                   *)
(***************************************************************************)
IsPrefix(a, b) == Len(a) <= Len(b) /\ SubSeq(b, 1, Len(a)) = a

\* C24: across a process() or flush() call the messages grow by exactly the
\* messages the call returns, appended at the end; the old errors are a
\* prefix of the new errors; the line counter does not decrease.
C24_AppendOnly ==
  [][tw_call' \in {"process", "flush"}
       => /\ tw_obs'.messages = tw_obs.messages \o tw_ret'
          /\ IsPrefix(tw_obs.errors, tw_obs'.errors)
          /\ tw_obs'.line_count >= tw_obs.line_count]_vars

\* A process() call returned a message on a stream that already held a
\* message and a ParseError.
C24_Witness ==
  /\ tw_call = "process"
  /\ tw_ret # << >>
  /\ Len(tw_obs.messages) > Len(tw_ret)
  /\ tw_obs.errors # << >>


(***************************************************************************)
(* ParseError line numbers.                                                *)
(***************************************************************************)
\* The error line numbers increase strictly and lie in 1..line_count, and
\* there are no more messages and errors than lines.
ErrorNumbersInOrder ==
  /\ \A i \in 1..Len(os.errors) :
       /\ os.errors[i].line_number >= 1
       /\ os.errors[i].line_number <= os.line_count
  /\ \A i \in 1..(Len(os.errors) - 1) :
       os.errors[i].line_number < os.errors[i + 1].line_number
  /\ Len(os.messages) + Len(os.errors) <= os.line_count

\* The lines the step completes: for process(chunk) one per newline of the
\* pending buffer followed by the chunk, for flush() the pending buffer when
\* it is not blank.
StepLines ==
  IF os_call' = "process"
  THEN CompletedLines(os.buffer \o SubSeq(os_fed', Len(os_fed) + 1, Len(os_fed')), "fed")
  ELSE IF os_call' = "flush" /\ Trim(os.buffer) # << >> THEN << os.buffer >>
  ELSE << >>

\* Every line the step completes is counted, and every ParseError the step
\* records carries one of these lines, unchanged, with the number that line
\* has among all lines counted so far.
ErrorsCarryLine ==
  os_call' \in {"process", "flush"} =>
    /\ os'.line_count = os.line_count + Len(StepLines)
    /\ \A i \in (Len(os.errors) + 1)..Len(os'.errors) :
         LET k == os'.errors[i].line_number - os.line_count
         IN  /\ k \in 1..Len(StepLines)
             /\ os'.errors[i].line = StepLines[k]

\* C25: every recorded ParseError carries the offending raw line and the
\* 1-based number of that line among all lines completed so far, blank and
\* non-JSON lines and a flushed final line counted; in every state the error
\* line numbers are strictly increasing and between 1 and the line counter,
\* and messages plus errors do not outnumber the lines.
C25_ErrorLineNumbers == []ErrorNumbersInOrder /\ [][ErrorsCarryLine]_vars

\* Two ParseErrors, numbered 1 and 3: a blank line was counted between them
\* and the second is the flushed final line.
C25_Witness ==
  /\ os_call = "flush"
  /\ os_fed = << "{", NL, NL, "{" >>
  /\ os.errors = << ParseError(<< "{" >>, 1), ParseError(<< "{" >>, 3) >>
  /\ os.line_count = 3


(***************************************************************************)
(* The parsed output of stop.                                              *)
(***************************************************************************)
\* C26: on an isolation-free controller in JSON mode, a stop that returns Ok
\* reports as parsed_output the messages of the lines of the run's stdout,
\* once each and in order, and no parsed_output when there are none.
C26_ParsedOutputOnce ==
  [][(/\ CallStep("stop")
      /\ a_ret'.ok
      /\ config.isolation \in {"", "none"}
      /\ config.json) =>
        LET stdout == agent'[1].process_handle[1].stdout
            msgs == ExpectedMessages(CompletedLines(stdout, "flushed"))
        IN  a_ret'.val.parsed_output = IF msgs = << >> THEN None ELSE Some(msgs)]_vars


(***************************************************************************)
(* The state of a ProcessHandle after wait_for_exit.                       *)
(***************************************************************************)
\* C27: whenever wait_for_exit returns Ok(c), has_exited() is true and
\* get_output() reports the exit code Some(c).
C27_OkMeansExited ==
  [][(CallStep("wait_for_exit") /\ a_ret'.ok) =>
       /\ has_exited(handle'[1])
       /\ get_output(handle'[1])[3] = Some(a_ret'.val)]_vars


(***************************************************************************)
(* stop with dry_run.                                                      *)
(***************************************************************************)
\* C28: a stop with dry_run spawns no command and waits for no process,
\* whatever the isolation mode.
C28_StopDryRunNoEffect ==
  [][(CallStep("stop") /\ a_call'.dry_run) =>
       /\ spawned' = spawned
       /\ waited' = waited
       /\ agent'[1].process_handle = agent[1].process_handle]_vars


(***************************************************************************)
(* parse_ndjson next to JsonOutputStream.                                  *)
(***************************************************************************)
\* C29: for every text, parse_ndjson(text) equals get_messages() of a fresh
\* JsonOutputStream after process(text) and flush().
C29_ParsersAgree ==
  p_pc = "streamed" => p_result = p_msgs

\* Both parsers were given a text with a noise line, a blank line and a last
\* line without newline, and both returned the one message.
C29_Witness ==
  /\ p_pc = "streamed"
  /\ p_text = << "1", NL, NL, "{", "}" >>
  /\ p_msgs = << JObj(<< >>) >>
  /\ p_result = p_msgs


(***************************************************************************)
(* The buffer of a JsonInputStream.                                        *)
(***************************************************************************)
\* C30: a JsonInputStream never buffers a null message, however it was built,
\* so in compact mode size() is the number of lines to_string() renders.
C30_NoNullBuffered ==
  in_call.op # "init" =>
    /\ \A i \in 1..size(ins) : ins.messages[i].t # "null"
    /\ ins.compact =>
         size(ins) = Cardinality(NewlinePositions(JsonInputStream_to_string(ins)))

=============================================================================
